---- MODULE Spec2Model ----
(***************************************************************************)
(* carbon-conversion-lib: the factor registry and resolver                 *)
(* (src/src/factors/index.ts), the conversion engine and the avoided-      *)
(* emissions calculator (src/unnamed/part_003), with the rounding          *)
(* primitive (src/unnamed/part_002) and the unit normalizer                *)
(* (src/src/util/units.ts).                                                *)
(*                                                                         *)
(* Calendar dates are day numbers 1..MaxDay in calendar order; day         *)
(* OpenEndDay stands for "2099-12-31", the date the code substitutes for a *)
(* missing effectiveTo.  Factor values are in thousandths of kg/kWh.       *)
(***************************************************************************)
EXTENDS Integers, Sequences, FiniteSets, TLC

VARIABLES
    defaultFactorPack,   \* factors/index.ts:10  the factor table
    regionMappings,      \* factors/index.ts:11  the region mappings
    last,                \* the registry call made last: its arguments and outcome
    now,                 \* the wall clock read by new Date()
    calc                 \* the conversion call made last: its arguments and outcome

vars == <<defaultFactorPack, regionMappings, last, now, calc>>

----------------------------------------------------------------------------
(* Bounds *)

MaxPackLen == 2
MaxDay == 4
MaxClock == 2
MaxDecimals == 2
MaxItems == 2

----------------------------------------------------------------------------
(* Values *)

\* an absent optional string field or argument (undefined)
Undefined == "undefined"

\* an absent date: `date?: string`, `effectiveTo?: string`
NoDate == 0

\* new Date('2099-12-31'), the stand-in for a missing effectiveTo
OpenEndDay == 3

\* milliseconds per day: Date.getTime() of a YYYY-MM-DD string
MsPerDay == 86400000

Scopes == {"operational", "marginal", "baseline"}

\* z.number().positive().max(2), in thousandths
MaxFactorValue == 2000

Factor(id, region, scope, value, from, to) ==
    [id |-> id, region |-> region, scope |-> scope, valueKgPerKWh |-> value,
     effectiveFrom |-> from, effectiveTo |-> to]

\* the value of `Factor | null` when it is null, and of a call that returned no factor
NullFactor == Factor("", "", "", 0, NoDate, NoDate)

RegionMapping(code, iso2, iso3, unM49) ==
    [code |-> code, iso2 |-> iso2, iso3 |-> iso3, unM49 |-> unM49]

\* without the WORLD factor
defaultFactors_NoWorld ==
    << Factor("IN-2024-BASELINE", "IN", "baseline", 708, 1, NoDate),
       Factor("US-2024-BASELINE", "US", "baseline", 386, 1, NoDate),
       Factor("EU-2024-BASELINE", "EU", "baseline", 255, 1, NoDate) >>

\* index.ts: the embedded default factor pack
defaultFactors ==
    << Factor("WORLD-DEFAULT-2024", "WORLD", "baseline", 820, 1, NoDate),
       Factor("IN-2024-BASELINE", "IN", "baseline", 708, 1, NoDate),
       Factor("US-2024-BASELINE", "US", "baseline", 386, 1, NoDate),
       Factor("EU-2024-BASELINE", "EU", "baseline", 255, 1, NoDate) >>

\* index.ts: the embedded default region mappings
defaultRegions ==
    << RegionMapping("WORLD", Undefined, Undefined, Undefined),
       RegionMapping("IN", "IN", "IND", "356"),
       RegionMapping("US", "US", "USA", "840"),
       RegionMapping("EU", Undefined, Undefined, Undefined) >>

----------------------------------------------------------------------------
(* Inputs *)

\* factor records offered to the loaders, all of them valid
FactorInputs ==
    { Factor("W-1", "WORLD", "baseline", 820, 1, NoDate),
      Factor("W-M", "WORLD", "marginal", 900, 1, NoDate),
      Factor("IN-1", "IN", "baseline", 708, 1, MaxDay),
      Factor("IN-2", "IN", "baseline", 650, 2, NoDate) }

\* the sequences of at most n elements of S, none of them twice (ids are unique)
RECURSIVE SeqsUpTo(_, _)
SeqsUpTo(S, n) ==
    IF n = 0 THEN { <<>> }
    ELSE LET shorter == SeqsUpTo(S, n - 1)
             fresh(s) == { x \in S : \A i \in 1..Len(s) : s[i] # x }
         IN  shorter \cup UNION { { Append(s, x) : x \in fresh(s) } : s \in shorter }

\* packs that fail validation: a factor value of 0 is not positive
InvalidPackInputs ==
    { << Factor("IN-0", "IN", "baseline", 0, 1, NoDate) >>,
      << Factor("W-1", "WORLD", "baseline", 820, 1, NoDate),
         Factor("W-9", "WORLD", "baseline", MaxFactorValue + 1, 1, NoDate) >> }

PackInputs == SeqsUpTo(FactorInputs, MaxPackLen) \cup InvalidPackInputs

\* a region pack offered to the loaders (it is not validated): IN stores its iso3
\* alias in lower case, and EU carries a UN M49 code that IN carries too
regionInputs ==
    << RegionMapping("WORLD", Undefined, Undefined, Undefined),
       RegionMapping("IN", "IN", "ind", "356"),
       RegionMapping("EU", Undefined, Undefined, "356") >>

RegionInputs == {"IN", "in", "ind", "356", "WORLD", "XX", "UNKNOWN", ""}

ScopeInputs == {"baseline", "marginal"}

DateInputs == {NoDate} \cup (1..MaxDay)

----------------------------------------------------------------------------
(* schema: validateFactorPack *)

\* String.prototype.length of the region codes in use
StrLen(s) ==
    CASE s = "" -> 0
      [] s \in {"IN", "US", "EU", "XX", "in"} -> 2
      [] s \in {"IND", "USA", "356", "840", "ind"} -> 3
      [] s = "WORLD" -> 5
      [] OTHER -> 9

\* FactorSchema
FactorSchemaOk(f) ==
    /\ f.id # ""
    /\ StrLen(f.region) >= 2
    /\ StrLen(f.region) <= 10
    /\ f.scope \in Scopes
    /\ f.valueKgPerKWh > 0
    /\ f.valueKgPerKWh <= MaxFactorValue
    /\ f.effectiveFrom # NoDate

\* validateFactorPack: FactorPackSchema.parse returns the pack or throws
validateFactorPack(json) ==
    IF \A i \in 1..Len(json) : FactorSchemaOk(json[i])
    THEN [ok |-> TRUE, factors |-> json]
    ELSE [ok |-> FALSE, factors |-> <<>>]

----------------------------------------------------------------------------
(* factors/index.ts: region normalization *)

\* String.prototype.toUpperCase on the region strings in use
toUpperCase(s) ==
    CASE s = "in" -> "IN"
      [] s = "ind" -> "IND"
      [] s = "world" -> "WORLD"
      [] s = "xx" -> "XX"
      [] OTHER -> s

\* the predicate of getRegionInfo's find
RegionMatches(region, regionCode) ==
    \/ region.code = regionCode
    \/ region.iso2 = regionCode
    \/ region.iso3 = regionCode
    \/ region.unM49 = regionCode

\* Array.prototype.find: the index of the first mapping that matches, 0 for none
FindRegion(regionCode) ==
    LET hits == { i \in 1..Len(regionMappings) :
                    RegionMatches(regionMappings[i], regionCode) }
    IN  IF hits = {} THEN 0 ELSE CHOOSE i \in hits : \A j \in hits : i <= j

\* getRegionInfo: regionMappings.find(...) || null
getRegionInfo(regionCode) ==
    LET i == FindRegion(regionCode)
    IN  IF i = 0 THEN [found |-> FALSE, code |-> ""]
        ELSE [found |-> TRUE, code |-> regionMappings[i].code]

normalizeRegionCode_NoUpperCase(regionCode) ==
    IF regionCode = "" THEN "WORLD"
    ELSE LET regionInfo == getRegionInfo(regionCode)
         IN  IF regionInfo.found THEN regionInfo.code ELSE regionCode

normalizeRegionCode(regionCode) ==
    IF regionCode = "" THEN "WORLD"
    ELSE LET upperCode == toUpperCase(regionCode)
             regionInfo == getRegionInfo(upperCode)
         IN  IF regionInfo.found THEN regionInfo.code ELSE upperCode

----------------------------------------------------------------------------
(* factors/index.ts: resolveFactor *)

\* new Date(s).getTime()
getTime(day) == day * MsPerDay

\* the date filter of resolveFactor
DateInRange(factor, date) ==
    LET targetDate == getTime(date)
        fromDate == getTime(factor.effectiveFrom)
        toDate == IF factor.effectiveTo # NoDate
                  THEN getTime(factor.effectiveTo) ELSE getTime(OpenEndDay)
    IN  targetDate >= fromDate /\ targetDate <= toDate

\* candidates.sort((a, b) => dateB.getTime() - dateA.getTime()): a stable sort,
\* most recent effectiveFrom first
RECURSIVE SortByEffectiveFromDesc(_)
SortByEffectiveFromDesc(s) ==
    IF Len(s) <= 1 THEN s
    ELSE LET n == Len(s)
             head == SortByEffectiveFromDesc(SubSeq(s, 1, n - 1))
             x == s[n]
             \* x goes behind every element that does not sort after it
             k == Cardinality({ i \in 1..Len(head) :
                     getTime(x.effectiveFrom) - getTime(head[i].effectiveFrom) <= 0 })
         IN  SubSeq(head, 1, k) \o <<x>> \o SubSeq(head, k + 1, Len(head))

RegionScopeFilter_AnyScope(factorPack, region, scope) ==
    SelectSeq(factorPack, LAMBDA factor : factor.region = region)

\* factorPack.filter(factor => factor.region === region && factor.scope === scope)
RegionScopeFilter(factorPack, region, scope) ==
    SelectSeq(factorPack, LAMBDA factor : factor.region = region /\ factor.scope = scope)

Candidates_NoFallback(factorPack, normalizedRegion, scope) ==
    RegionScopeFilter(factorPack, normalizedRegion, scope)

\* the candidates of resolveFactor: the region's own, or WORLD's when it has none
Candidates(factorPack, normalizedRegion, scope) ==
    LET own == RegionScopeFilter(factorPack, normalizedRegion, scope)
    IN  IF Len(own) = 0 /\ normalizedRegion # "WORLD"
        THEN RegionScopeFilter(factorPack, "WORLD", scope)
        ELSE own

Thrown(kind) == [kind |-> kind, factor |-> NullFactor]

Returned(factor) == [kind |-> "ok", factor |-> factor]

\* falls back to WORLD also when the date filter leaves nothing
resolveFactor_DateFallback(options) ==
    LET factorPack == IF options.overrides.given
                      THEN options.overrides.factors ELSE defaultFactorPack
        normalizedRegion == normalizeRegionCode(options.region)
        candidates == Candidates(factorPack, normalizedRegion, options.scope)
        own == SelectSeq(candidates, LAMBDA factor : DateInRange(factor, options.date))
        dated == IF Len(own) = 0
                 THEN SelectSeq(RegionScopeFilter(factorPack, "WORLD", options.scope),
                                LAMBDA factor : DateInRange(factor, options.date))
                 ELSE own
    IN  IF Len(factorPack) = 0 THEN Thrown("NoFactorsAvailable")
        ELSE IF Len(candidates) = 0 THEN Thrown("UnknownRegionError")
        ELSE IF options.date # NoDate
             THEN IF Len(dated) = 0 THEN Thrown("NoFactorForDateError")
                  ELSE Returned(SortByEffectiveFromDesc(dated)[1])
             ELSE Returned(candidates[1])

\* sorts the candidates whether or not a date is given
resolveFactor_AlwaysSorted(options) ==
    LET factorPack == IF options.overrides.given
                      THEN options.overrides.factors ELSE defaultFactorPack
        normalizedRegion == normalizeRegionCode(options.region)
        candidates == Candidates(factorPack, normalizedRegion, options.scope)
        dated == SelectSeq(candidates, LAMBDA factor : DateInRange(factor, options.date))
    IN  IF Len(factorPack) = 0 THEN Thrown("NoFactorsAvailable")
        ELSE IF Len(candidates) = 0 THEN Thrown("UnknownRegionError")
        ELSE IF options.date # NoDate
             THEN IF Len(dated) = 0 THEN Thrown("NoFactorForDateError")
                  ELSE Returned(SortByEffectiveFromDesc(dated)[1])
             ELSE Returned(SortByEffectiveFromDesc(candidates)[1])

\* without the check of an empty table
resolveFactor_NoEmptyCheck(options) ==
    LET factorPack == IF options.overrides.given
                      THEN options.overrides.factors ELSE defaultFactorPack
        normalizedRegion == normalizeRegionCode(options.region)
        candidates == Candidates(factorPack, normalizedRegion, options.scope)
        dated == SelectSeq(candidates, LAMBDA factor : DateInRange(factor, options.date))
    IN  IF Len(candidates) = 0 THEN Thrown("UnknownRegionError")
        ELSE IF options.date # NoDate
             THEN IF Len(dated) = 0 THEN Thrown("NoFactorForDateError")
                  ELSE Returned(SortByEffectiveFromDesc(dated)[1])
             ELSE Returned(candidates[1])

\* an empty overrides array counts as none
resolveFactor_EmptyOverridesIgnored(options) ==
    LET factorPack == IF options.overrides.given /\ Len(options.overrides.factors) > 0
                      THEN options.overrides.factors ELSE defaultFactorPack
        normalizedRegion == normalizeRegionCode(options.region)
        candidates == Candidates(factorPack, normalizedRegion, options.scope)
        dated == SelectSeq(candidates, LAMBDA factor : DateInRange(factor, options.date))
    IN  IF Len(factorPack) = 0 THEN Thrown("NoFactorsAvailable")
        ELSE IF Len(candidates) = 0 THEN Thrown("UnknownRegionError")
        ELSE IF options.date # NoDate
             THEN IF Len(dated) = 0 THEN Thrown("NoFactorForDateError")
                  ELSE Returned(SortByEffectiveFromDesc(dated)[1])
             ELSE Returned(candidates[1])

\* resolveFactor(options): options holds region, scope, date (NoDate when not
\* given) and overrides ([given, factors]); the result is the factor returned or
\* the error thrown
resolveFactor(options) ==
    LET factorPack == IF options.overrides.given
                      THEN options.overrides.factors ELSE defaultFactorPack
        normalizedRegion == normalizeRegionCode(options.region)
        candidates == Candidates(factorPack, normalizedRegion, options.scope)
        dated == SelectSeq(candidates, LAMBDA factor : DateInRange(factor, options.date))
    IN  IF Len(factorPack) = 0 THEN Thrown("NoFactorsAvailable")
        ELSE IF Len(candidates) = 0 THEN Thrown("UnknownRegionError")
        ELSE IF options.date # NoDate
             THEN IF Len(dated) = 0 THEN Thrown("NoFactorForDateError")
                  ELSE Returned(SortByEffectiveFromDesc(dated)[1])
             ELSE Returned(candidates[1])

----------------------------------------------------------------------------
(* factors/index.ts: the other readers *)

NoFilter == [given |-> FALSE, region |-> "", scope |-> "", from |-> NoDate, to |-> NoDate]

\* the date-range predicate of listFactors
OverlapsWindow(factor, filter) ==
    LET factorFrom == getTime(factor.effectiveFrom)
        factorTo == IF factor.effectiveTo # NoDate
                    THEN getTime(factor.effectiveTo) ELSE getTime(OpenEndDay)
    IN  /\ (filter.from # NoDate => ~(factorTo < getTime(filter.from)))
        /\ (filter.to # NoDate => ~(factorFrom > getTime(filter.to)))

\* listFactors(filter?): a copy of the table, filtered
listFactors(filter) ==
    IF ~filter.given THEN defaultFactorPack
    ELSE LET byRegion == IF filter.region # ""
                         THEN SelectSeq(defaultFactorPack, LAMBDA factor :
                                  factor.region = normalizeRegionCode(filter.region))
                         ELSE defaultFactorPack
             byScope == IF filter.scope # ""
                        THEN SelectSeq(byRegion, LAMBDA factor : factor.scope = filter.scope)
                        ELSE byRegion
         IN  IF filter.from # NoDate \/ filter.to # NoDate
             THEN SelectSeq(byScope, LAMBDA factor : OverlapsWindow(factor, filter))
             ELSE byScope

\* getFactorById: the first factor with the id, or null
getFactorById(id) ==
    LET hits == { i \in 1..Len(defaultFactorPack) : defaultFactorPack[i].id = id }
    IN  IF hits = {} THEN NullFactor
        ELSE defaultFactorPack[CHOOSE i \in hits : \A j \in hits : i <= j]

getFactorsByRegionAndScope(region, scope) ==
    RegionScopeFilter(defaultFactorPack, normalizeRegionCode(region), scope)

\* the first in table order
getLatestFactor_Unsorted(region, scope) ==
    LET factors == getFactorsByRegionAndScope(region, scope)
    IN  IF Len(factors) = 0 THEN NullFactor
        ELSE factors[1]

\* getLatestFactor: the most recent of the region's own factors, or null
getLatestFactor(region, scope) ==
    LET factors == getFactorsByRegionAndScope(region, scope)
    IN  IF Len(factors) = 0 THEN NullFactor
        ELSE SortByEffectiveFromDesc(factors)[1]

\* the region codes and the scopes in use, in the order of Array.prototype.sort
RegionOrder == <<"EU", "IN", "US", "WORLD">>

ScopeOrder == <<"baseline", "marginal", "operational">>

\* getAvailableRegions: the regions of the table, each once, sorted
getAvailableRegions ==
    SelectSeq(RegionOrder, LAMBDA region :
        \E i \in 1..Len(defaultFactorPack) : defaultFactorPack[i].region = region)

\* getAvailableScopes(region?): the scopes of the table, or of the region's
\* factors, each once, sorted
getAvailableScopes(region) ==
    LET factors == IF region # ""
                   THEN SelectSeq(defaultFactorPack, LAMBDA factor :
                            factor.region = normalizeRegionCode(region))
                   ELSE defaultFactorPack
    IN  SelectSeq(ScopeOrder, LAMBDA scope :
            \E i \in 1..Len(factors) : factors[i].scope = scope)

\* isRegionSupported: some factor of the table has the normalized region
isRegionSupported(region) ==
    \E i \in 1..Len(defaultFactorPack) :
        defaultFactorPack[i].region = normalizeRegionCode(region)

\* sorts the array that the candidates were filtered from
ArrayAfterSort_InPlace(array, sorted) ==
    IF sorted THEN SortByEffectiveFromDesc(array) ELSE array

\* an array after a call that filters it and sorts what the filter returned:
\* filter returns a new array, and sort reorders that one
ArrayAfterSort(array, sorted) == array

----------------------------------------------------------------------------
(* Numbers.  A JavaScript number is an IEEE-754 binary64 value: NaN, an        *)
(* infinity, or (-1)^s * m * 2^e with a significand m of 53 bits (m = 0 for    *)
(* zero).  The significand is a natural number written in limbs of 10 bits,    *)
(* least significant first, without leading zero limbs, so that two numbers    *)
(* are equal exactly when their records are.  Every arithmetic operation gives *)
(* the correctly rounded result (round to nearest, ties to even), and a       *)
(* result beyond Number.MAX_VALUE is an Infinity.  Subnormal results are not   *)
(* modelled; the inputs stay far from them.                                    *)

\* the limbs hold 10 bits
LimbBits == 10

LimbBase == 1024

\* the significand of a binary64 value has 53 bits
MantissaBits == 53

RECURSIVE Pow2(_)
Pow2(n) == IF n = 0 THEN 1 ELSE 2 * Pow2(n - 1)

RECURSIVE Pow10(_)
Pow10(e) == IF e = 0 THEN 1 ELSE 10 * Pow10(e - 1)

Abs(i) == IF i < 0 THEN -i ELSE i

Max(a, b) == IF a >= b THEN a ELSE b

Min(a, b) == IF a <= b THEN a ELSE b

RECURSIVE BTrim(_)
BTrim(a) ==
    IF a = <<>> THEN a
    ELSE IF a[Len(a)] = 0 THEN BTrim(SubSeq(a, 1, Len(a) - 1)) ELSE a

\* the natural number n in limbs
RECURSIVE BNat(_)
BNat(n) == IF n = 0 THEN <<>> ELSE <<n % LimbBase>> \o BNat(n \div LimbBase)

RECURSIVE BAddC(_, _, _)
BAddC(a, b, c) ==
    IF a = <<>> /\ b = <<>> THEN BNat(c)
    ELSE LET x == IF a = <<>> THEN 0 ELSE Head(a)
             y == IF b = <<>> THEN 0 ELSE Head(b)
             s == x + y + c
         IN  <<s % LimbBase>>
               \o BAddC(IF a = <<>> THEN a ELSE Tail(a),
                        IF b = <<>> THEN b ELSE Tail(b), s \div LimbBase)

BAdd(a, b) == BAddC(a, b, 0)

\* a - b - c in limbs, for a >= b + c
RECURSIVE BSubC(_, _, _)
BSubC(a, b, c) ==
    IF a = <<>> THEN <<>>
    ELSE LET y == IF b = <<>> THEN 0 ELSE Head(b)
             s == Head(a) - y - c
         IN  <<(s + LimbBase) % LimbBase>>
               \o BSubC(Tail(a), IF b = <<>> THEN b ELSE Tail(b),
                        IF s < 0 THEN 1 ELSE 0)

BSub(a, b) == BTrim(BSubC(a, b, 0))

\* -1, 0 or 1 as the limbs from position i down make a less than, equal to or
\* greater than b, for a and b of the same length
RECURSIVE BCmpAt(_, _, _)
BCmpAt(a, b, i) ==
    IF i = 0 THEN 0
    ELSE IF a[i] < b[i] THEN -1
    ELSE IF a[i] > b[i] THEN 1
    ELSE BCmpAt(a, b, i - 1)

BCmp(a, b) ==
    IF Len(a) < Len(b) THEN -1
    ELSE IF Len(a) > Len(b) THEN 1
    ELSE BCmpAt(a, b, Len(a))

\* a * k + c for a small k
RECURSIVE BMulSmallC(_, _, _)
BMulSmallC(a, k, c) ==
    IF a = <<>> THEN BNat(c)
    ELSE LET p == Head(a) * k + c
         IN  <<p % LimbBase>> \o BMulSmallC(Tail(a), k, p \div LimbBase)

BMulSmall(a, k) == IF k = 0 THEN <<>> ELSE BMulSmallC(a, k, 0)

\* a * h + rest * 2^10
BMulAdd(a, h, rest) ==
    IF rest = <<>> THEN BMulSmall(a, h) ELSE BAdd(BMulSmall(a, h), <<0>> \o rest)

RECURSIVE BMul(_, _)
BMul(a, b) ==
    IF a = <<>> \/ b = <<>> THEN <<>>
    ELSE BMulAdd(a, Head(b), BMul(a, Tail(b)))

\* one limb h of the dividend more, after the limbs above it gave hi
BDivSmallStep(h, hi, k) ==
    IF hi.r = 0 /\ h = 0 THEN [q |-> <<0>> \o hi.q, r |-> 0]
    ELSE [q |-> <<(hi.r * LimbBase + h) \div k>> \o hi.q,
          r |-> (hi.r * LimbBase + h) % k]

\* quotient (untrimmed) and remainder of a by a small k
RECURSIVE BDivSmallR(_, _)
BDivSmallR(a, k) ==
    IF a = <<>> THEN [q |-> <<>>, r |-> 0]
    ELSE BDivSmallStep(Head(a), BDivSmallR(Tail(a), k), k)

RECURSIVE BitLenInt(_)
BitLenInt(n) == IF n = 0 THEN 0 ELSE 1 + BitLenInt(n \div 2)

BitLen(a) ==
    IF a = <<>> THEN 0 ELSE LimbBits * (Len(a) - 1) + BitLenInt(a[Len(a)])

\* a * 2^n
BShl(a, n) ==
    IF a = <<>> THEN a
    ELSE [i \in 1..(n \div LimbBits) |-> 0] \o BMulSmall(a, Pow2(n % LimbBits))

\* floor(a / 2^n)
BShr(a, n) ==
    IF n \div LimbBits >= Len(a) THEN <<>>
    ELSE BTrim(BDivSmallR(SubSeq(a, (n \div LimbBits) + 1, Len(a)),
                          Pow2(n % LimbBits)).q)

\* limb i of a, 0 beyond its length; the three limbs of a from i down as one number
Limb(a, i) == IF i >= 1 /\ i <= Len(a) THEN a[i] ELSE 0

Top3(a, i) == (Limb(a, i) * LimbBase + Limb(a, i - 1)) * LimbBase + Limb(a, i - 2)

\* the greatest g in lo..hi with d * g <= a
BDigitIn(a, d, lo, hi) ==
    CHOOSE g \in lo..hi :
        /\ BCmp(BMulSmall(d, g), a) <= 0
        /\ g = hi \/ BCmp(BMulSmall(d, g + 1), a) > 0

\* the greatest g with d * g <= a, for a < d * 2^10 and d of three limbs or
\* more: the leading limbs of a and d (a3, d2) leave it a few candidates
BDigitNear(a, d, a3, d2) ==
    BDigitIn(a, d, a3 \div (d2 + 1), Min(LimbBase - 1, (a3 + 1) \div d2))

BDigit(a, d) == BDigitNear(a, d, Top3(a, Len(d) + 1), Top3(d, Len(d) + 1))

\* the next limb g of the quotient, and what is left of cur
BDivTake(cur, q, d, g) == [q |-> <<g>> \o q, r |-> BSub(cur, BMulSmall(d, g))]

\* one limb h of the dividend more, after the limbs above it gave hi
BDivStep(h, hi, d) ==
    IF hi.r = <<>> /\ h = 0 THEN [q |-> <<0>> \o hi.q, r |-> <<>>]
    ELSE BDivTake(<<h>> \o hi.r, hi.q, d, BDigit(<<h>> \o hi.r, d))

\* quotient (untrimmed) and remainder of a by d, a limb of a at a time
RECURSIVE BDivLimbs(_, _)
BDivLimbs(a, d) ==
    IF a = <<>> THEN [q |-> <<>>, r |-> <<>>]
    ELSE BDivStep(Head(a), BDivLimbs(Tail(a), d), d)

\* quotient of a by d > 0, and whether the division left no remainder
BDivMod(a, d) ==
    IF Len(d) <= 2
    THEN LET s == BDivSmallR(a, d[1] + (IF Len(d) = 2 THEN LimbBase * d[2] ELSE 0))
         IN  [q |-> BTrim(s.q), exact |-> s.r = 0]
    ELSE LET s == BDivLimbs(a, d)
         IN  [q |-> BTrim(s.q), exact |-> s.r = <<>>]

Zero == [k |-> "fin", s |-> 0, m |-> <<>>, e |-> 0]

NaN == [k |-> "NaN", s |-> 0, m |-> <<>>, e |-> 0]

PosInf == [k |-> "Infinity", s |-> 0, m |-> <<>>, e |-> 0]

NegInf == [k |-> "Infinity", s |-> 1, m |-> <<>>, e |-> 0]

\* the exponent of the last place of Number.MAX_VALUE, (2^53 - 1) * 2^971
MaxExponent == 971

\* a result too large for binary64 is an Infinity
Finite(s, m, e) ==
    IF e > MaxExponent THEN [k |-> "Infinity", s |-> s, m |-> <<>>, e |-> 0]
    ELSE [k |-> "fin", s |-> s, m |-> m, e |-> e]

\* the significand m1 of up to 54 bits brought back to 53
RoundCarry(m1, s, e) ==
    IF BitLen(m1) > MantissaBits THEN Finite(s, BShr(m1, 1), e + 1)
    ELSE Finite(s, m1, e)

\* m0 is q without its t low bits: round to nearest, ties to even, by what
\* was cut off (c compares it with one half; exact: nothing lies beyond q)
RoundCut(m0, c, exact, s, e) ==
    RoundCarry(IF c = 1 \/ (c = 0 /\ (~exact \/ m0[1] % 2 = 1))
               THEN BAdd(m0, <<1>>) ELSE m0, s, e)

RoundLow(q, m0, t, exact, s, e) ==
    IF m0 = <<>> THEN Zero
    ELSE RoundCut(m0, BCmp(BSub(q, BShl(m0, t)), BShl(<<1>>, t - 1)), exact, s, e + t)

RoundBits(q, t, exact, s, e) == RoundLow(q, BShr(q, t), t, exact, s, e)

RoundQuotient(qr, s, e) ==
    IF qr.q = <<>> THEN Zero
    ELSE RoundBits(qr.q, BitLen(qr.q) - MantissaBits, qr.exact, s, e)

\* the quotient is taken with at least two bits more than the significand holds
RoundShifted(s, n, d, e, sh) == RoundQuotient(BDivMod(BShl(n, sh), d), s, e - sh)

\* the number of zero bits at the low end of a # 0
RECURSIVE LowZerosInt(_)
LowZerosInt(n) == IF n % 2 = 1 THEN 0 ELSE 1 + LowZerosInt(n \div 2)

RECURSIVE LowZeros(_)
LowZeros(a) ==
    IF Head(a) = 0 THEN LimbBits + LowZeros(Tail(a)) ELSE LowZerosInt(Head(a))

\* the binary64 value nearest to (-1)^s * (n / d) * 2^e, ties to even
Round(s, n, d, e) ==
    IF n = <<>> THEN Zero
    ELSE RoundShifted(s, n, d, e, Max(0, MantissaBits + 2 + BitLen(d) - BitLen(n)))

\* the number written n/d in decimal notation, d a power of ten
Fin(n, d) == Round(IF n < 0 THEN 1 ELSE 0, BNat(Abs(n)), BNat(d), 0)

\* Number.isFinite
isFinite(x) == x.k = "fin"

\* x < 0, for a finite x
Negative(x) == x.s = 1 /\ x.m # <<>>

\* a * b with an operand that is not finite: NaN with a NaN and for
\* Infinity * 0, else an Infinity
TimesNonFinite(a, b) ==
    IF a.k = "NaN" \/ b.k = "NaN" \/ (isFinite(a) /\ a.m = <<>>)
       \/ (isFinite(b) /\ b.m = <<>>)
    THEN NaN
    ELSE [k |-> "Infinity", s |-> (a.s + b.s) % 2, m |-> <<>>, e |-> 0]

\* a / b with an operand that is not finite (b # 0): NaN with a NaN and for
\* Infinity / Infinity, an Infinity for Infinity / b, else a zero
OverNonFinite(a, b) ==
    IF a.k = "NaN" \/ b.k = "NaN" \/ (~isFinite(a) /\ ~isFinite(b)) THEN NaN
    ELSE IF ~isFinite(a) THEN [k |-> "Infinity", s |-> (a.s + b.s) % 2, m |-> <<>>, e |-> 0]
    ELSE [k |-> "fin", s |-> (a.s + b.s) % 2, m |-> <<>>, e |-> 0]

\* a * b and a / b (b # 0)
Times(a, b) ==
    IF isFinite(a) /\ isFinite(b)
    THEN Round((a.s + b.s) % 2, BMul(a.m, b.m), <<1>>, a.e + b.e)
    ELSE TimesNonFinite(a, b)

\* the divisor is taken without the zero bits at its low end
OverOdd(a, b, z) == Round((a.s + b.s) % 2, a.m, BShr(b.m, z), a.e - b.e - z)

Over(a, b) ==
    IF isFinite(a) /\ isFinite(b) THEN OverOdd(a, b, LowZeros(b.m))
    ELSE OverNonFinite(a, b)

\* Number.MAX_VALUE, the largest finite number
MaxValue == [k |-> "fin", s |-> 0, m |-> <<1023, 1023, 1023, 1023, 1023, 7>>,
             e |-> MaxExponent]

\* x + y or x - y in limbs, with the sign of the result
PlusAligned(x, xs, y, ys, e) ==
    IF xs = ys THEN Round(xs, BAdd(x, y), <<1>>, e)
    ELSE IF BCmp(x, y) >= 0 THEN Round(xs, BSub(x, y), <<1>>, e)
    ELSE Round(ys, BSub(y, x), <<1>>, e)

PlusAt(a, b, e) == PlusAligned(BShl(a.m, a.e - e), a.s, BShl(b.m, b.e - e), b.s, e)

\* a + b, for finite operands
Plus(a, b) ==
    IF a.m = <<>> THEN b
    ELSE IF b.m = <<>> THEN a
    ELSE PlusAt(a, b, Min(a.e, b.e))

\* a < b, for finite operands
Less(a, b) == Negative(Plus(a, [b EXCEPT !.s = 1 - b.s]))

\* the whole part w of |x| and what is left of the significand beyond it
WholeRest(x, w) == [w |-> w, rest |-> BSub(x.m, BShl(w, -x.e)), bits |-> -x.e]

Whole(x) ==
    IF x.e >= 0 THEN [w |-> BShl(x.m, x.e), rest |-> <<>>, bits |-> 0]
    ELSE WholeRest(x, BShr(x.m, -x.e))

\* how the rest compares with one half: -1, 0, 1
Half(p) == BCmp(BMulSmall(p.rest, 2), BShl(<<1>>, p.bits))

\* the integer (-1)^s * w, or one further from zero, as a number
Whole64(s, w, up) == Round(s, IF up THEN BAdd(w, <<1>>) ELSE w, <<1>>, 0)

FloorOf(x, p) == Whole64(x.s, p.w, x.s = 1 /\ p.rest # <<>>)

RoundOf(x, p) == Whole64(x.s, p.w, IF x.s = 0 THEN Half(p) >= 0 ELSE Half(p) > 0)

\* NaN and the infinities, and the numbers without bits below the units, which
\* Math.floor, Math.trunc and Math.round return as they are
IsWhole(x) == ~isFinite(x) \/ x.e >= 0

\* Math.floor, Math.trunc, Math.round (halves go towards +Infinity)
MathFloor(x) == IF IsWhole(x) THEN x ELSE FloorOf(x, Whole(x))

MathTrunc(x) == IF IsWhole(x) THEN x ELSE Whole64(x.s, Whole(x).w, FALSE)

MathRound(x) == IF IsWhole(x) THEN x ELSE RoundOf(x, Whole(x))

----------------------------------------------------------------------------
(* util/units.ts, util/math.ts *)

\* GWh taken for MWh
normalizeToKWh_GWhAsMWh(energy, unit) ==
    CASE unit = "kWh" -> [kind |-> "ok", value |-> energy]
      [] unit \in {"MWh", "GWh"} -> [kind |-> "ok", value |-> Times(energy, Fin(1000, 1))]
      [] OTHER -> [kind |-> "InvalidUnitError", value |-> NaN]

\* normalizeToKWh: the energy in kWh, or InvalidUnitError
normalizeToKWh(energy, unit) ==
    CASE unit = "kWh" -> [kind |-> "ok", value |-> energy]
      [] unit = "MWh" -> [kind |-> "ok", value |-> Times(energy, Fin(1000, 1))]
      [] unit = "GWh" -> [kind |-> "ok", value |-> Times(energy, Fin(1000000, 1))]
      [] OTHER -> [kind |-> "InvalidUnitError", value |-> NaN]

\* safeMultiply: every path returns the plain product
safeMultiply(a, b) == Times(a, b)

\* roundStable(x, decimals, mode): x scaled by 10^decimals, made whole by
\* Math.round, Math.floor or Math.trunc, and divided by 10^decimals again
roundStable(x, decimals, mode) ==
    IF ~isFinite(x) THEN x
    ELSE LET factor == Fin(Pow10(decimals), 1)
             scaled == Times(x, factor)
             rounded == CASE mode = "DOWN" -> MathFloor(scaled)
                          [] mode = "TRUNC" -> MathTrunc(scaled)
                          [] OTHER -> MathRound(scaled)
         IN  Over(rounded, factor)

----------------------------------------------------------------------------
(* methods/grid.ts: toCO2eKg *)

Threw(kind) == [kind |-> kind, value |-> NaN]

\* the sign checks come before the check that the values are finite
toCO2eKg_SignFirst(energy, unit, factorKgPerKWh) ==
    IF (isFinite(energy) /\ Negative(energy)) \/ energy = NegInf
    THEN Threw("Energy cannot be negative")
    ELSE IF (isFinite(factorKgPerKWh) /\ Negative(factorKgPerKWh))
            \/ factorKgPerKWh = NegInf
    THEN Threw("Emission factor cannot be negative")
    ELSE IF ~isFinite(energy) \/ ~isFinite(factorKgPerKWh)
    THEN Threw("Energy and factor must be finite numbers")
    ELSE LET energyKWh == normalizeToKWh(energy, unit)
         IN  IF energyKWh.kind # "ok" THEN Threw(energyKWh.kind)
             ELSE [kind |-> "ok", value |-> safeMultiply(energyKWh.value, factorKgPerKWh)]

\* toCO2eKg: the kg of CO2e, or the error thrown
toCO2eKg(energy, unit, factorKgPerKWh) ==
    IF ~isFinite(energy) \/ ~isFinite(factorKgPerKWh)
    THEN Threw("Energy and factor must be finite numbers")
    ELSE IF Negative(energy) THEN Threw("Energy cannot be negative")
    ELSE IF Negative(factorKgPerKWh) THEN Threw("Emission factor cannot be negative")
    ELSE LET energyKWh == normalizeToKWh(energy, unit)
         IN  IF energyKWh.kind # "ok" THEN Threw(energyKWh.kind)
             ELSE [kind |-> "ok", value |-> safeMultiply(energyKWh.value, factorKgPerKWh)]

\* toCO2eTonnes: toCO2eKg / 1000
toCO2eTonnes(energy, unit, factorKgPerKWh) ==
    LET co2eKg == toCO2eKg(energy, unit, factorKgPerKWh)
    IN  IF co2eKg.kind # "ok" THEN co2eKg
        ELSE [kind |-> "ok", value |-> Over(co2eKg.value, Fin(1000, 1))]

\* `decimals: number = 6`
DefaultRoundedDecimals == 6

\* the kilograms are rounded, not the tonnes
toCO2eTonnesRounded_Kg(energy, unit, factorKgPerKWh, decimals, roundingMode) ==
    LET co2eKg == toCO2eKg(energy, unit, factorKgPerKWh)
    IN  IF co2eKg.kind # "ok" THEN co2eKg
        ELSE [kind |-> "ok",
              value |-> roundStable(co2eKg.value,
                                    IF decimals < 0 THEN DefaultRoundedDecimals ELSE decimals,
                                    IF roundingMode = Undefined THEN "HALF_UP"
                                    ELSE roundingMode)]

\* toCO2eTonnesRounded: toCO2eTonnes, rounded; a decimals or roundingMode that
\* is not given (-1, Undefined) takes its default
toCO2eTonnesRounded(energy, unit, factorKgPerKWh, decimals, roundingMode) ==
    LET co2eTonnes == toCO2eTonnes(energy, unit, factorKgPerKWh)
    IN  IF co2eTonnes.kind # "ok" THEN co2eTonnes
        ELSE [kind |-> "ok",
              value |-> roundStable(co2eTonnes.value,
                                    IF decimals < 0 THEN DefaultRoundedDecimals ELSE decimals,
                                    IF roundingMode = Undefined THEN "HALF_UP"
                                    ELSE roundingMode)]

----------------------------------------------------------------------------
(* methods/avoided.ts: avoidedEmissions *)

\* `decimals ?? 6`
DefaultDecimals == 6

\* input.rounding when it is not given, and a rounding field that is not given
NoRounding == [given |-> FALSE, decimals |-> -1, mode |-> Undefined]

NoResult == [tCO2e |-> NaN, kgCO2e |-> NaN, factorKgPerKWh |-> NaN, energyKWh |-> NaN,
             meta |-> [inputUnit |-> Undefined, rounding |-> NoRounding,
                       calculatedAt |-> -1]]

\* avoidedEmissions(input): the result, or the error thrown; the result's meta
\* carries new Date().toISOString()
avoidedEmissions(input) ==
    IF ~isFinite(input.energy) \/ ~isFinite(input.factorKgPerKWh)
    THEN [kind |-> "Energy and factor must be finite numbers", result |-> NoResult]
    ELSE IF Negative(input.energy)
    THEN [kind |-> "Energy cannot be negative", result |-> NoResult]
    ELSE IF Negative(input.factorKgPerKWh)
    THEN [kind |-> "Emission factor cannot be negative", result |-> NoResult]
    ELSE LET energyKWh == normalizeToKWh(input.energy, input.inputUnit)
         IN  IF energyKWh.kind # "ok" THEN [kind |-> energyKWh.kind, result |-> NoResult]
             ELSE LET kgCO2e == safeMultiply(energyKWh.value, input.factorKgPerKWh)
                      tCO2e == Over(kgCO2e, Fin(1000, 1))
                      decimals == IF input.rounding.given /\ input.rounding.decimals >= 0
                                  THEN input.rounding.decimals ELSE DefaultDecimals
                      roundingMode == IF input.rounding.given
                                         /\ input.rounding.mode # Undefined
                                      THEN input.rounding.mode ELSE "HALF_UP"
                  IN  [kind |-> "ok",
                       result |->
                         [tCO2e |-> roundStable(tCO2e, decimals, roundingMode),
                          kgCO2e |-> roundStable(kgCO2e, decimals, roundingMode),
                          factorKgPerKWh |-> input.factorKgPerKWh,
                          energyKWh |-> energyKWh.value,
                          meta |-> [inputUnit |-> input.inputUnit,
                                    rounding |-> input.rounding,
                                    calculatedAt |-> now]]]

\* inputs.map(input => avoidedEmissions(input)): for each input its result, or
\* the error it throws
batchAvoidedEmissions(inputs) ==
    [i \in DOMAIN inputs |-> avoidedEmissions(inputs[i])]

\* numbers.reduce((sum, x) => sum + x, sum)
RECURSIVE reduceSum(_, _)
reduceSum(sum, numbers) ==
    IF numbers = <<>> THEN sum
    ELSE reduceSum(Plus(sum, Head(numbers)), Tail(numbers))

NoTotal == [tCO2e |-> NaN, kgCO2e |-> NaN, factorKgPerKWh |-> NaN, energyKWh |-> NaN,
            meta |-> [sourceCount |-> -1, rounding |-> NoRounding, calculatedAt |-> -1]]

\* the plain mean of the factors
weightedFactor_Mean(individualResults, totalEnergyKWh) ==
    IF Less(Zero, totalEnergyKWh)
    THEN Over(reduceSum(Zero, [i \in DOMAIN individualResults |->
                                 individualResults[i].factorKgPerKWh]),
              Fin(Len(individualResults), 1))
    ELSE Zero

\* the weighted average factor of totalAvoidedEmissions
weightedFactor(individualResults, totalEnergyKWh) ==
    IF Less(Zero, totalEnergyKWh)
    THEN Over(reduceSum(Zero, [i \in DOMAIN individualResults |->
                                 Times(individualResults[i].factorKgPerKWh,
                                       individualResults[i].energyKWh)]),
              totalEnergyKWh)
    ELSE Zero

\* the sums of totalAvoidedEmissions, rounded
TotalOf(individualResults, totalEnergyKWh, decimals, roundingMode, rounding) ==
    [tCO2e |-> roundStable(reduceSum(Zero, [i \in DOMAIN individualResults |->
                                               individualResults[i].tCO2e]),
                           decimals, roundingMode),
     kgCO2e |-> roundStable(reduceSum(Zero, [i \in DOMAIN individualResults |->
                                                individualResults[i].kgCO2e]),
                            decimals, roundingMode),
     factorKgPerKWh |-> roundStable(weightedFactor(individualResults, totalEnergyKWh),
                                    decimals, roundingMode),
     energyKWh |-> totalEnergyKWh,
     meta |-> [sourceCount |-> Len(individualResults), rounding |-> rounding,
               calculatedAt |-> now]]

\* the index of the first input that avoidedEmissions rejects, 0 for none
FirstThrown(batch) ==
    IF \A i \in DOMAIN batch : batch[i].kind = "ok" THEN 0
    ELSE CHOOSE i \in DOMAIN batch :
            /\ batch[i].kind # "ok"
            /\ \A j \in 1..(i - 1) : batch[j].kind = "ok"

ResultsOf(batch) == [i \in DOMAIN batch |-> batch[i].result]

TotalOrThrown(batch, individualResults, rounding) ==
    IF FirstThrown(batch) # 0
    THEN [kind |-> batch[FirstThrown(batch)].kind, result |-> NoTotal]
    ELSE [kind |-> "ok",
          result |->
            TotalOf(individualResults,
                    reduceSum(Zero, [i \in DOMAIN individualResults |->
                                       individualResults[i].energyKWh]),
                    IF rounding.given /\ rounding.decimals >= 0
                    THEN rounding.decimals ELSE DefaultDecimals,
                    IF rounding.given /\ rounding.mode # Undefined
                    THEN rounding.mode ELSE "HALF_UP",
                    rounding)]

\* totalAvoidedEmissions(inputs, rounding?): the result, or the error thrown by
\* the first input that avoidedEmissions rejects
totalAvoidedEmissions(inputs, rounding) ==
    TotalOrThrown(batchAvoidedEmissions(inputs),
                  ResultsOf(batchAvoidedEmissions(inputs)), rounding)

----------------------------------------------------------------------------
(* methods/grid.ts: the batch conversions *)

\* inputs.map(input => toCO2eTonnes(...)): for each input its tonnes, or the
\* error it throws
batchToCO2eTonnes(inputs) ==
    [i \in DOMAIN inputs |->
        toCO2eTonnes(inputs[i].energy, inputs[i].inputUnit, inputs[i].factorKgPerKWh)]

ValuesOf(batch) == [i \in DOMAIN batch |-> batch[i].value]

\* leaves out the inputs that toCO2eTonnes rejects
TonnesOrThrown_SkipInvalid(batch, decimals, roundingMode) ==
    [kind |-> "ok",
     value |-> roundStable(reduceSum(Zero, ValuesOf(SelectSeq(batch, LAMBDA b : b.kind = "ok"))),
                           IF decimals < 0 THEN DefaultRoundedDecimals ELSE decimals,
                           IF roundingMode = Undefined THEN "HALF_UP" ELSE roundingMode)]

TonnesOrThrown(batch, decimals, roundingMode) ==
    IF FirstThrown(batch) # 0 THEN Threw(batch[FirstThrown(batch)].kind)
    ELSE [kind |-> "ok",
          value |-> roundStable(reduceSum(Zero, ValuesOf(batch)),
                                IF decimals < 0 THEN DefaultRoundedDecimals ELSE decimals,
                                IF roundingMode = Undefined THEN "HALF_UP" ELSE roundingMode)]

\* totalCO2eTonnes(inputs, decimals = 6, roundingMode = 'HALF_UP'): the sum of
\* the tonnes, rounded, or the error thrown by the first input that is rejected
totalCO2eTonnes(inputs, decimals, roundingMode) ==
    TonnesOrThrown(batchToCO2eTonnes(inputs), decimals, roundingMode)

----------------------------------------------------------------------------
(* uncertainty bounds and methodology adjustments *)

\* a - b, for finite operands
Minus(a, b) == Plus(a, [b EXCEPT !.s = 1 - b.s])

\* calculateUncertaintyBounds(value, uncertaintyPct, decimals, mode)
BoundsOf(value, uncertainty, uncertaintyPct, decimals, mode) ==
    [lower |-> roundStable(Minus(value, uncertainty), decimals, mode),
     upper |-> roundStable(Plus(value, uncertainty), decimals, mode),
     plusMinusPct |-> uncertaintyPct]

calculateUncertaintyBounds(value, uncertaintyPct, decimals, mode) ==
    BoundsOf(value, Over(Times(value, uncertaintyPct), Fin(100, 1)), uncertaintyPct,
             decimals, mode)

NoBounds == [baseTCO2e |-> NaN, lowerTCO2e |-> NaN, upperTCO2e |-> NaN,
             uncertaintyPct |-> NaN]

\* the bounds around the base value that toCO2eTonnesRounded returned; the
\* bounds are rounded with the same decimals and the default mode
BoundsWith(baseTCO2e, uncertainty, uncertaintyPct, decimals) ==
    [baseTCO2e |-> baseTCO2e,
     lowerTCO2e |-> roundStable(Minus(baseTCO2e, uncertainty), decimals, "HALF_UP"),
     upperTCO2e |-> roundStable(Plus(baseTCO2e, uncertainty), decimals, "HALF_UP"),
     uncertaintyPct |-> uncertaintyPct]

BoundsAround(base, uncertaintyPct, decimals) ==
    IF base.kind # "ok" THEN [kind |-> base.kind, bounds |-> NoBounds]
    ELSE [kind |-> "ok",
          bounds |-> BoundsWith(base.value,
                                Over(Times(base.value, uncertaintyPct), Fin(100, 1)),
                                uncertaintyPct, decimals)]

\* toCO2eWithUncertainty(energy, unit, factorKgPerKWh, uncertaintyPct, decimals):
\* the bounds, or the error thrown; a negative decimals stands for the argument
\* left out
toCO2eWithUncertainty(energy, unit, factorKgPerKWh, uncertaintyPct, decimals) ==
    BoundsAround(toCO2eTonnesRounded(energy, unit, factorKgPerKWh, decimals, Undefined),
                 uncertaintyPct,
                 IF decimals < 0 THEN DefaultRoundedDecimals ELSE decimals)

\* an optional member of the adjustments: left out, or given with a value
Omitted == [given |-> FALSE, value |-> NaN]

Supplied(x) == [given |-> TRUE, value |-> x]

\* the adjustments argument left out
NoAdjustments == [given |-> FALSE, efficiencyFactor |-> Omitted,
                  degradationFactor |-> Omitted, uncertaintyPct |-> Omitted]

\* `if (adjustments?.efficiencyFactor)`: the member is given, and its value is
\* neither 0 nor NaN
Truthy(member) ==
    /\ member.given
    /\ member.value.k # "NaN"
    /\ ~(member.value.k = "fin" /\ member.value.m = <<>>)

\* adjustedInput.energy * member, when the member is truthy
Adjusted(energy, member) ==
    IF Truthy(member) THEN Times(energy, member.value) ELSE energy

NoUncertainty == [given |-> FALSE, plusMinusPct |-> NaN, lowerTCO2e |-> NaN,
                  upperTCO2e |-> NaN]

\* result.uncertainty, set when adjustments.uncertaintyPct is truthy
UncertaintyWith(uncertaintyBounds) ==
    [given |-> TRUE, plusMinusPct |-> uncertaintyBounds.plusMinusPct,
     lowerTCO2e |-> uncertaintyBounds.lower,
     upperTCO2e |-> uncertaintyBounds.upper]

UncertaintyOf(result, rounding, member) ==
    IF ~Truthy(member) THEN NoUncertainty
    ELSE UncertaintyWith(
             calculateUncertaintyBounds(
                 result.tCO2e, member.value,
                 IF rounding.given /\ rounding.decimals >= 0
                 THEN rounding.decimals ELSE DefaultDecimals,
                 IF rounding.given /\ rounding.mode # Undefined
                 THEN rounding.mode ELSE "HALF_UP"))

\* the result of avoidedEmissions with the uncertainty and the methodology
\* metadata added to it
WithMethodology(r, input, methodology, adjustments) ==
    IF r.kind # "ok" THEN [kind |-> r.kind, result |-> r.result,
                           uncertainty |-> NoUncertainty]
    ELSE [kind |-> "ok",
          result |-> [tCO2e |-> r.result.tCO2e,
                      kgCO2e |-> r.result.kgCO2e,
                      factorKgPerKWh |-> r.result.factorKgPerKWh,
                      energyKWh |-> r.result.energyKWh,
                      meta |-> [inputUnit |-> r.result.meta.inputUnit,
                                rounding |-> r.result.meta.rounding,
                                calculatedAt |-> r.result.meta.calculatedAt,
                                methodology |-> methodology,
                                adjustments |-> adjustments]],
          uncertainty |-> UncertaintyOf(r.result, input.rounding,
                                        adjustments.uncertaintyPct)]

\* avoidedEmissionsWithMethodology(input, methodology, adjustments): the result,
\* or the error thrown
avoidedEmissionsWithMethodology(input, methodology, adjustments) ==
    WithMethodology(
        avoidedEmissions(
            [input EXCEPT !.energy = Adjusted(Adjusted(input.energy,
                                                       adjustments.efficiencyFactor),
                                              adjustments.degradationFactor)]),
        input, methodology, adjustments)

----------------------------------------------------------------------------
(* the calls *)

NoOverrides == [given |-> FALSE, factors |-> <<>>]

\* the record of a call: what was called, with what, and what came back.  For a
\* load, pack is the pack passed and before is the table the call found; for
\* listFactors, filter is the filter passed and list the array returned; for
\* resolveFactor with overrides, after is the overrides array after the call.
NoCall == [op |-> "none", region |-> "", scope |-> "", date |-> NoDate,
           overrides |-> NoOverrides, kind |-> "none", factor |-> NullFactor,
           pack |-> <<>>, before |-> <<>>, filter |-> NoFilter, list |-> <<>>,
           after |-> <<>>, info |-> [found |-> FALSE, code |-> ""], found |-> FALSE]

Loaded(kind, pack) ==
    [NoCall EXCEPT !.op = "load", !.kind = kind, !.pack = pack,
                   !.before = defaultFactorPack]

\* the record of a conversion call: what was called, with what, and what came back
NoCalc == [op |-> "none",
           input |-> [energy |-> NaN, inputUnit |-> Undefined, factorKgPerKWh |-> NaN,
                      rounding |-> NoRounding],
           kind |-> "none", value |-> NaN, result |-> NoResult]

Init ==
    /\ defaultFactorPack = <<>>
    /\ regionMappings = <<>>
    /\ last = NoCall
    /\ now = 0
    /\ calc = NoCalc

\* keeps the factors of the table it finds
initializeFactorRegistry_Merge(factorPack, regions) ==
    LET v == validateFactorPack(factorPack)
    IN  /\ defaultFactorPack' = IF v.ok THEN defaultFactorPack \o v.factors
                                ELSE defaultFactorPack
        /\ regionMappings' = IF v.ok THEN regions ELSE regionMappings
        /\ last' = Loaded(IF v.ok THEN "ok" ELSE "ZodError", factorPack)

\* replaces the region mappings before the pack is validated
initializeFactorRegistry_RegionsFirst(factorPack, regions) ==
    LET v == validateFactorPack(factorPack)
    IN  /\ defaultFactorPack' = IF v.ok THEN v.factors ELSE defaultFactorPack
        /\ regionMappings' = regions
        /\ last' = Loaded(IF v.ok THEN "ok" ELSE "ZodError", factorPack)

\* initializeFactorRegistry(factorPack, regions): the pack is validated, then
\* both tables are replaced; a validation error leaves both as they were
initializeFactorRegistry(factorPack, regions) ==
    LET v == validateFactorPack(factorPack)
    IN  /\ defaultFactorPack' = IF v.ok THEN v.factors ELSE defaultFactorPack
        /\ regionMappings' = IF v.ok THEN regions ELSE regionMappings
        /\ last' = Loaded(IF v.ok THEN "ok" ELSE "ZodError", factorPack)

InitializeFactorRegistry ==
    \E factorPack \in PackInputs, regions \in {regionInputs, <<>>} :
        /\ initializeFactorRegistry(factorPack, regions)
        /\ UNCHANGED <<now, calc>>

\* keeps the region mappings when no regions are passed
loadFactorPack_KeepRegions(jsonData, regions) ==
    LET v == validateFactorPack(jsonData)
    IN  IF v.ok
        THEN initializeFactorRegistry(v.factors,
                                      IF regions.given THEN regions.list
                                      ELSE regionMappings)
        ELSE /\ last' = Loaded("ZodError", jsonData)
             /\ UNCHANGED <<defaultFactorPack, regionMappings>>

\* loadFactorPack(jsonData, regions?): validates, then initializes with
\* `regions || []`
loadFactorPack(jsonData, regions) ==
    LET v == validateFactorPack(jsonData)
    IN  IF v.ok
        THEN initializeFactorRegistry(v.factors,
                                      IF regions.given THEN regions.list ELSE <<>>)
        ELSE /\ last' = Loaded("ZodError", jsonData)
             /\ UNCHANGED <<defaultFactorPack, regionMappings>>

LoadFactorPack ==
    \E jsonData \in PackInputs,
       regions \in {[given |-> TRUE, list |-> regionInputs],
                    [given |-> FALSE, list |-> <<>>]} :
        /\ loadFactorPack(jsonData, regions)
        /\ UNCHANGED <<now, calc>>

\* index.ts: importing the package entry loads the embedded defaults, once,
\* before any call can be made through it
ImportIndex ==
    /\ last = NoCall
    /\ loadFactorPack(defaultFactors, [given |-> TRUE, list |-> defaultRegions])
    /\ UNCHANGED <<now, calc>>

ResolveFactorCall ==
    \E region \in RegionInputs, scope \in ScopeInputs, date \in DateInputs :
        LET options == [region |-> region, scope |-> scope, date |-> date,
                        overrides |-> NoOverrides]
            r == resolveFactor(options)
        IN  /\ last' = [NoCall EXCEPT !.op = "resolveFactor", !.region = region,
                                      !.scope = scope, !.date = date,
                                      !.kind = r.kind, !.factor = r.factor]
            /\ UNCHANGED <<defaultFactorPack, regionMappings, now, calc>>

Next ==
    \/ ImportIndex
    \/ InitializeFactorRegistry
    \/ LoadFactorPack
    \/ ResolveFactorCall

Spec == Init /\ [][Next]_vars

----------------------------------------------------------------------------
(* the queries: listFactors and getLatestFactor, called on the tables that   *)
(* the loads leave                                                            *)

\* the windows [from, to] of the filters; either bound can be missing
WindowInputs == { <<from, to>> : from \in DateInputs, to \in {NoDate, 1, 2} }

FilterInputs ==
    {NoFilter} \cup
    { [given |-> TRUE, region |-> region, scope |-> scope,
       from |-> w[1], to |-> w[2]] :
        region \in {"", "in", "WORLD"}, scope \in {"", "baseline"}, w \in WindowInputs }

ListFactorsCall ==
    \E filter \in FilterInputs :
        /\ last' = [NoCall EXCEPT !.op = "listFactors", !.filter = filter,
                                  !.kind = "ok", !.list = listFactors(filter)]
        /\ UNCHANGED <<defaultFactorPack, regionMappings, now, calc>>

GetLatestFactorCall ==
    \E region \in {"in", "WORLD", "XX", ""}, scope \in ScopeInputs :
        LET factor == getLatestFactor(region, scope)
        IN  /\ last' = [NoCall EXCEPT !.op = "getLatestFactor", !.region = region,
                                      !.scope = scope,
                                      !.kind = IF factor = NullFactor THEN "null" ELSE "ok",
                                      !.factor = factor]
            /\ UNCHANGED <<defaultFactorPack, regionMappings, now, calc>>

NextQuery ==
    \/ ImportIndex
    \/ LoadFactorPack
    \/ ListFactorsCall
    \/ GetLatestFactorCall

SpecQuery == Init /\ [][NextQuery]_vars

----------------------------------------------------------------------------
(* the readers of the registry, called between loads; resolveFactor is called  *)
(* with and without an overrides array                                          *)

OverridesInputs ==
    { NoOverrides,
      [given |-> TRUE, factors |-> <<>>],
      [given |-> TRUE,
       factors |-> << Factor("O-IN-1", "IN", "baseline", 500, 1, NoDate),
                      Factor("O-IN-2", "IN", "baseline", 400, 2, NoDate) >>],
      [given |-> TRUE,
       factors |-> << Factor("O-W-2", "WORLD", "baseline", 600, 2, NoDate) >>] }

\* whether resolveFactor reaches the sort of its candidates
SortReached(r, options) == options.date # NoDate /\ r.kind = "ok"

ResolveFactorOverridesCall ==
    \E region \in {"ind", "WORLD", "XX"}, scope \in {"baseline"}, date \in {NoDate, 1, 2},
       overrides \in OverridesInputs :
        LET options == [region |-> region, scope |-> scope, date |-> date,
                        overrides |-> overrides]
            r == resolveFactor(options)
        IN  /\ last' = [NoCall EXCEPT
                          !.op = "resolveFactor", !.region = region, !.scope = scope,
                          !.date = date, !.overrides = overrides,
                          !.kind = r.kind, !.factor = r.factor,
                          !.after = IF overrides.given
                                    THEN ArrayAfterSort(overrides.factors,
                                                        SortReached(r, options))
                                    ELSE <<>>]
            /\ defaultFactorPack' =
                   IF overrides.given THEN defaultFactorPack
                   ELSE ArrayAfterSort(defaultFactorPack, SortReached(r, options))
            /\ UNCHANGED <<regionMappings, now, calc>>

ListAllFactorsCall ==
    /\ last' = [NoCall EXCEPT !.op = "listFactors", !.kind = "ok",
                              !.list = listFactors(NoFilter)]
    /\ UNCHANGED <<defaultFactorPack, regionMappings, now, calc>>

GetLatestFactorSortCall ==
    \E region \in {"ind", "XX"}, scope \in {"baseline"} :
        LET factor == getLatestFactor(region, scope)
        IN  /\ last' = [NoCall EXCEPT !.op = "getLatestFactor", !.region = region,
                                      !.scope = scope,
                                      !.kind = IF factor = NullFactor THEN "null" ELSE "ok",
                                      !.factor = factor]
            /\ defaultFactorPack' = ArrayAfterSort(defaultFactorPack, factor # NullFactor)
            /\ UNCHANGED <<regionMappings, now, calc>>

GetFactorsByRegionAndScopeCall ==
    \E region \in {"ind", "WORLD"}, scope \in {"baseline"} :
        /\ last' = [NoCall EXCEPT !.op = "getFactorsByRegionAndScope",
                                  !.region = region, !.scope = scope, !.kind = "ok",
                                  !.list = getFactorsByRegionAndScope(region, scope)]
        /\ UNCHANGED <<defaultFactorPack, regionMappings, now, calc>>

GetAvailableRegionsCall ==
    /\ last' = [NoCall EXCEPT !.op = "getAvailableRegions", !.kind = "ok",
                              !.list = getAvailableRegions]
    /\ UNCHANGED <<defaultFactorPack, regionMappings, now, calc>>

GetAvailableScopesCall ==
    \E region \in {"", "ind"} :
        /\ last' = [NoCall EXCEPT !.op = "getAvailableScopes", !.region = region,
                                  !.kind = "ok", !.list = getAvailableScopes(region)]
        /\ UNCHANGED <<defaultFactorPack, regionMappings, now, calc>>

IsRegionSupportedCall ==
    \E region \in {"ind", "356", "XX"} :
        /\ last' = [NoCall EXCEPT !.op = "isRegionSupported", !.region = region,
                                  !.kind = "ok", !.found = isRegionSupported(region)]
        /\ UNCHANGED <<defaultFactorPack, regionMappings, now, calc>>

GetRegionInfoCall ==
    \E regionCode \in {"IN", "IND", "ind", "356", "XX"} :
        LET regionInfo == getRegionInfo(regionCode)
        IN  /\ last' = [NoCall EXCEPT !.op = "getRegionInfo", !.region = regionCode,
                                      !.kind = IF regionInfo.found THEN "ok" ELSE "null",
                                      !.info = regionInfo]
            /\ UNCHANGED <<defaultFactorPack, regionMappings, now, calc>>

GetFactorByIdCall ==
    \E id \in {"IN-2", "O-IN-1"} :
        LET factor == getFactorById(id)
        IN  /\ last' = [NoCall EXCEPT !.op = "getFactorById",
                                      !.kind = IF factor = NullFactor THEN "null" ELSE "ok",
                                      !.factor = factor]
            /\ UNCHANGED <<defaultFactorPack, regionMappings, now, calc>>

NextRead ==
    \/ ImportIndex
    \/ LoadFactorPack
    \/ ResolveFactorOverridesCall
    \/ ListAllFactorsCall
    \/ GetLatestFactorSortCall
    \/ GetFactorsByRegionAndScopeCall
    \/ GetAvailableRegionsCall
    \/ GetAvailableScopesCall
    \/ IsRegionSupportedCall
    \/ GetRegionInfoCall
    \/ GetFactorByIdCall

SpecRead == Init /\ [][NextRead]_vars

----------------------------------------------------------------------------
(* the conversion calls: the arguments are drawn at the start, and the        *)
(* conversions are called with them, again and again, as time passes           *)

EnergyInputs ==
    {NaN, NegInf, Fin(-1, 1), Fin(0, 1), Fin(1, 1000), Fin(3, 2), Fin(1500, 1),
     Fin(12345678, 1000), MaxValue}

FactorValueInputs == {NaN, PosInf, Fin(-1, 2), Fin(1, 2), Fin(708, 1000)}

UnitInputs == {"kWh", "MWh", "GWh", "Wh"}

RoundingInputs ==
    { NoRounding,
      [given |-> TRUE, decimals |-> 0, mode |-> "DOWN"],
      [given |-> TRUE, decimals |-> 3, mode |-> Undefined],
      [given |-> TRUE, decimals |-> 6, mode |-> "HALF_UP"] }

InitCalc ==
    /\ defaultFactorPack = <<>>
    /\ regionMappings = <<>>
    /\ last = NoCall
    /\ now = 0
    /\ \E energy \in EnergyInputs, unit \in UnitInputs,
          factorKgPerKWh \in FactorValueInputs, rounding \in RoundingInputs :
          calc = [NoCalc EXCEPT !.input = [energy |-> energy, inputUnit |-> unit,
                                           factorKgPerKWh |-> factorKgPerKWh,
                                           rounding |-> rounding]]

ToCO2eKgCall ==
    LET r == toCO2eKg(calc.input.energy, calc.input.inputUnit, calc.input.factorKgPerKWh)
    IN  /\ calc' = [NoCalc EXCEPT !.op = "toCO2eKg", !.input = calc.input,
                                  !.kind = r.kind, !.value = r.value]
        /\ UNCHANGED <<defaultFactorPack, regionMappings, last, now>>

ToCO2eTonnesCall ==
    LET r == toCO2eTonnes(calc.input.energy, calc.input.inputUnit,
                          calc.input.factorKgPerKWh)
    IN  /\ calc' = [NoCalc EXCEPT !.op = "toCO2eTonnes", !.input = calc.input,
                                  !.kind = r.kind, !.value = r.value]
        /\ UNCHANGED <<defaultFactorPack, regionMappings, last, now>>

ToCO2eTonnesRoundedCall ==
    LET r == toCO2eTonnesRounded(calc.input.energy, calc.input.inputUnit,
                                 calc.input.factorKgPerKWh,
                                 calc.input.rounding.decimals, calc.input.rounding.mode)
    IN  /\ calc' = [NoCalc EXCEPT !.op = "toCO2eTonnesRounded", !.input = calc.input,
                                  !.kind = r.kind, !.value = r.value]
        /\ UNCHANGED <<defaultFactorPack, regionMappings, last, now>>

AvoidedEmissionsCall ==
    LET r == avoidedEmissions(calc.input)
    IN  /\ calc' = [NoCalc EXCEPT !.op = "avoidedEmissions", !.input = calc.input,
                                  !.kind = r.kind, !.result = r.result]
        /\ UNCHANGED <<defaultFactorPack, regionMappings, last, now>>

\* time passes between two calls
Tick ==
    /\ now < MaxClock
    /\ now' = now + 1
    /\ UNCHANGED <<defaultFactorPack, regionMappings, last, calc>>

NextCalc ==
    \/ ToCO2eKgCall
    \/ ToCO2eTonnesCall
    \/ ToCO2eTonnesRoundedCall
    \/ AvoidedEmissionsCall
    \/ Tick

SpecCalc == InitCalc /\ [][NextCalc]_vars

----------------------------------------------------------------------------
(* the calls with an uncertainty or with methodology adjustments: the         *)
(* arguments are drawn at the start                                             *)

AdjustedEnergyInputs == {Fin(0, 1), Fin(3, 2), Fin(1500, 1), Fin(59243, 10)}

AdjustedUnitInputs == {"kWh", "GWh"}

AdjustedFactorInputs == {Fin(708, 1000)}

AdjustedRoundingInputs ==
    { NoRounding, [given |-> TRUE, decimals |-> 9, mode |-> Undefined] }

MultiplierInputs == {Omitted, Supplied(Fin(0, 1)), Supplied(Fin(1, 2))}

PctInputs == {Omitted, Supplied(Fin(0, 1)), Supplied(Fin(5, 1))}

AdjustmentsInputs ==
    {NoAdjustments} \cup
    { [given |-> TRUE, efficiencyFactor |-> e, degradationFactor |-> g,
       uncertaintyPct |-> pct] :
        e \in MultiplierInputs, g \in MultiplierInputs, pct \in PctInputs }

MethodologyInputs == {"RE-SOLAR"}

NoAdjustedCall ==
    [op |-> "none",
     input |-> [energy |-> NaN, inputUnit |-> Undefined, factorKgPerKWh |-> NaN,
                rounding |-> NoRounding],
     methodology |-> Undefined, adjustments |-> NoAdjustments,
     kind |-> "none", result |-> NoResult, uncertainty |-> NoUncertainty,
     bounds |-> NoBounds]

InitAdjusted ==
    /\ defaultFactorPack = <<>>
    /\ regionMappings = <<>>
    /\ last = NoCall
    /\ now = 0
    /\ \E energy \in AdjustedEnergyInputs, unit \in AdjustedUnitInputs,
          factorKgPerKWh \in AdjustedFactorInputs, rounding \in AdjustedRoundingInputs,
          methodology \in MethodologyInputs, adjustments \in AdjustmentsInputs :
          calc = [NoAdjustedCall EXCEPT
                    !.input = [energy |-> energy, inputUnit |-> unit,
                               factorKgPerKWh |-> factorKgPerKWh,
                               rounding |-> rounding],
                    !.methodology = methodology,
                    !.adjustments = adjustments]

\* the record of a call with adjustments: r is what came back
AdjustedRecord(op, r) ==
    [NoAdjustedCall EXCEPT
        !.op = op, !.input = calc.input, !.methodology = calc.methodology,
        !.adjustments = calc.adjustments, !.kind = r.kind, !.result = r.result,
        !.uncertainty = r.uncertainty]

BoundsRecord(op, r) ==
    [NoAdjustedCall EXCEPT
        !.op = op, !.input = calc.input, !.methodology = calc.methodology,
        !.adjustments = calc.adjustments, !.kind = r.kind, !.bounds = r.bounds]

AvoidedEmissionsWithMethodologyCall ==
    /\ calc' = AdjustedRecord("avoidedEmissionsWithMethodology",
                              avoidedEmissionsWithMethodology(
                                  calc.input, calc.methodology, calc.adjustments))
    /\ UNCHANGED <<defaultFactorPack, regionMappings, last, now>>

\* toCO2eWithUncertainty is called with the energy, unit and factor of the
\* input, the percentage of the adjustments and the decimals of the rounding
ToCO2eWithUncertaintyCall ==
    /\ calc.adjustments.uncertaintyPct.given
    /\ calc' = BoundsRecord("toCO2eWithUncertainty",
                            toCO2eWithUncertainty(
                                calc.input.energy, calc.input.inputUnit,
                                calc.input.factorKgPerKWh,
                                calc.adjustments.uncertaintyPct.value,
                                calc.input.rounding.decimals))
    /\ UNCHANGED <<defaultFactorPack, regionMappings, last, now>>

NextAdjusted ==
    \/ AvoidedEmissionsWithMethodologyCall
    \/ ToCO2eWithUncertaintyCall

SpecAdjusted == InitAdjusted /\ [][NextAdjusted]_vars

----------------------------------------------------------------------------
(* the calls of batchAvoidedEmissions and totalAvoidedEmissions: the list of *)
(* inputs and the rounding of the total are drawn at the start                 *)

AvoidedInput(energy, inputUnit, factorKgPerKWh, rounding) ==
    [energy |-> energy, inputUnit |-> inputUnit, factorKgPerKWh |-> factorKgPerKWh,
     rounding |-> rounding]

ItemInputs ==
    { AvoidedInput(Fin(3, 2), "MWh", Fin(708, 1000), NoRounding),
      AvoidedInput(Fin(1, 1000), "kWh", Fin(708, 1000), NoRounding),
      AvoidedInput(Fin(3, 2), "kWh", Fin(1, 2),
                   [given |-> TRUE, decimals |-> 0, mode |-> "DOWN"]),
      AvoidedInput(Fin(0, 1), "kWh", Fin(1, 2), NoRounding),
      AvoidedInput(Fin(-1, 1), "kWh", Fin(1, 2), NoRounding),
      AvoidedInput(NaN, "kWh", Fin(-1, 2), NoRounding),
      AvoidedInput(Fin(3, 2), "MWh", Fin(-1, 2), NoRounding),
      AvoidedInput(Fin(3, 2), "Wh", Fin(1, 2), NoRounding) }

\* the sequences of at most n elements of S
RECURSIVE ListsUpTo(_, _)
ListsUpTo(S, n) ==
    IF n = 0 THEN { <<>> }
    ELSE LET shorter == ListsUpTo(S, n - 1)
         IN  shorter \cup { Append(s, x) : s \in shorter, x \in S }

\* the rounding of a total: not given, or whole numbers rounded down
TotalRoundingInputs == {NoRounding, [given |-> TRUE, decimals |-> 0, mode |-> "DOWN"]}

NoTotalCall == [op |-> "none", inputs |-> <<>>, rounding |-> NoRounding,
                kind |-> "none", result |-> NoTotal, results |-> <<>>, value |-> NaN]

InitTotal ==
    /\ defaultFactorPack = <<>>
    /\ regionMappings = <<>>
    /\ last = NoCall
    /\ now = 0
    /\ \E inputs \in ListsUpTo(ItemInputs, MaxItems), rounding \in TotalRoundingInputs :
          calc = [NoTotalCall EXCEPT !.inputs = inputs, !.rounding = rounding]

BatchRecord(batch) ==
    [NoTotalCall EXCEPT
       !.op = "batchAvoidedEmissions",
       !.inputs = calc.inputs, !.rounding = calc.rounding,
       !.kind = IF FirstThrown(batch) = 0 THEN "ok" ELSE batch[FirstThrown(batch)].kind,
       !.results = IF FirstThrown(batch) = 0 THEN ResultsOf(batch) ELSE <<>>]

BatchAvoidedEmissionsCall ==
    /\ calc' = BatchRecord(batchAvoidedEmissions(calc.inputs))
    /\ UNCHANGED <<defaultFactorPack, regionMappings, last, now>>

TotalRecord(r) ==
    [NoTotalCall EXCEPT
       !.op = "totalAvoidedEmissions",
       !.inputs = calc.inputs, !.rounding = calc.rounding,
       !.kind = r.kind, !.result = r.result]

TotalAvoidedEmissionsCall ==
    /\ calc' = TotalRecord(totalAvoidedEmissions(calc.inputs, calc.rounding))
    /\ UNCHANGED <<defaultFactorPack, regionMappings, last, now>>

TonnesBatchRecord(batch) ==
    [NoTotalCall EXCEPT
       !.op = "batchToCO2eTonnes",
       !.inputs = calc.inputs, !.rounding = calc.rounding,
       !.kind = IF FirstThrown(batch) = 0 THEN "ok" ELSE batch[FirstThrown(batch)].kind,
       !.results = IF FirstThrown(batch) = 0 THEN ValuesOf(batch) ELSE <<>>]

BatchToCO2eTonnesCall ==
    /\ calc' = TonnesBatchRecord(batchToCO2eTonnes(calc.inputs))
    /\ UNCHANGED <<defaultFactorPack, regionMappings, last, now>>

TonnesTotalRecord(r) ==
    [NoTotalCall EXCEPT
       !.op = "totalCO2eTonnes",
       !.inputs = calc.inputs, !.rounding = calc.rounding,
       !.kind = r.kind, !.value = r.value]

TotalCO2eTonnesCall ==
    /\ calc' = TonnesTotalRecord(totalCO2eTonnes(calc.inputs, calc.rounding.decimals,
                                                  calc.rounding.mode))
    /\ UNCHANGED <<defaultFactorPack, regionMappings, last, now>>

NextTotal ==
    \/ BatchAvoidedEmissionsCall
    \/ TotalAvoidedEmissionsCall
    \/ BatchToCO2eTonnesCall
    \/ TotalCO2eTonnesCall

SpecTotal == InitTotal /\ [][NextTotal]_vars

----------------------------------------------------------------------------
(* the calls of roundStable: the arguments are drawn at the start; the result *)
(* of a call can be rounded again with the same decimals and mode             *)

RoundingModes == {"HALF_UP", "DOWN", "TRUNC"}

RoundInputs ==
    { PosInf, Fin(0, 1), Fin(1, 2), Fin(-1, 2), Fin(3, 2), Fin(-3, 2), Fin(5, 2),
      Fin(-5, 2), Fin(14, 10), Fin(19, 10), Fin(-19, 10), Fin(21, 10),
      Fin(125, 1000), Fin(-125, 1000), Fin(29, 100), Fin(295, 1000),
      Fin(-195, 100), Fin(1234567, 1000000), Fin(1235567, 1000000) }

NoRound == [op |-> "none", x |-> NaN, decimals |-> 0, mode |-> Undefined,
            value |-> NaN, again |-> NaN]

InitRound ==
    /\ defaultFactorPack = <<>>
    /\ regionMappings = <<>>
    /\ last = NoCall
    /\ now = 0
    /\ \E x \in RoundInputs, decimals \in 0..MaxDecimals, mode \in RoundingModes :
          calc = [NoRound EXCEPT !.x = x, !.decimals = decimals, !.mode = mode]

RoundStableCall ==
    /\ calc' = [calc EXCEPT !.op = "roundStable",
                            !.value = roundStable(calc.x, calc.decimals, calc.mode),
                            !.again = NaN]
    /\ UNCHANGED <<defaultFactorPack, regionMappings, last, now>>

RoundStableAgain ==
    /\ calc.op # "none"
    /\ calc' = [calc EXCEPT !.op = "roundStableAgain",
                            !.again = roundStable(calc.value, calc.decimals, calc.mode)]
    /\ UNCHANGED <<defaultFactorPack, regionMappings, last, now>>

NextRound ==
    \/ RoundStableCall
    \/ RoundStableAgain

SpecRound == InitRound /\ [][NextRound]_vars

----------------------------------------------------------------------------
(* util/units.ts: canonical serialization.  A structured value is a number,  *)
(* a string, null, an array, or an object; an object is the sequence of its   *)
(* entries in insertion order.  A string is a sequence of tokens.             *)

Num(x) == [t |-> "number", num |-> x]
Str(s) == [t |-> "string", str |-> s]
Null == [t |-> "null"]
Arr(items) == [t |-> "array", items |-> items]
Obj(entries) == [t |-> "object", entries |-> entries]

Entry(key, value) == [key |-> key, value |-> value]

\* the keys in use, in the order of their UTF-16 code units
KeyOrder == <<"a", "b", "c">>

KeyRank(key) == CHOOSE i \in DOMAIN KeyOrder : KeyOrder[i] = key

ObjectKeys(obj) == [i \in DOMAIN obj.entries |-> obj.entries[i].key]

Get(obj, key) ==
    obj.entries[CHOOSE i \in DOMAIN obj.entries : obj.entries[i].key = key].value

RECURSIVE SortInsert(_, _)
SortInsert(sorted, key) ==
    IF sorted = <<>> THEN <<key>>
    ELSE IF KeyRank(key) < KeyRank(Head(sorted)) THEN <<key>> \o sorted
    ELSE <<Head(sorted)>> \o SortInsert(Tail(sorted), key)

RECURSIVE Sort(_)
Sort(keys) ==
    IF keys = <<>> THEN <<>>
    ELSE SortInsert(Sort(SubSeq(keys, 1, Len(keys) - 1)), keys[Len(keys)])

DefaultMaxDecimals == 6

\* the decimal text of a multiple of 10^-maxDecimals has no trailing zeros,
\* so that the text read back is the rounded number
formatNumber(num, maxDecimals) ==
    IF ~isFinite(num) THEN num
    ELSE Over(MathRound(Times(num, Fin(Pow10(maxDecimals), 1))),
              Fin(Pow10(maxDecimals), 1))

RECURSIVE normalizeObject_Unsorted(_, _)
normalizeObject_Unsorted(obj, maxDecimals) ==
    CASE obj.t = "number" -> Num(formatNumber(obj.num, maxDecimals))
      [] obj.t = "array" ->
            Arr([i \in DOMAIN obj.items |->
                    normalizeObject_Unsorted(obj.items[i], maxDecimals)])
      [] obj.t = "object" ->
            LET keys == ObjectKeys(obj)
            IN  Obj([i \in DOMAIN keys |->
                       Entry(keys[i],
                             normalizeObject_Unsorted(Get(obj, keys[i]), maxDecimals))])
      [] OTHER -> obj

RECURSIVE normalizeObject(_, _)
normalizeObject(obj, maxDecimals) ==
    CASE obj.t = "number" -> Num(formatNumber(obj.num, maxDecimals))
      [] obj.t = "array" ->
            Arr([i \in DOMAIN obj.items |-> normalizeObject(obj.items[i], maxDecimals)])
      [] obj.t = "object" ->
            LET keys == Sort(ObjectKeys(obj))
            IN  Obj([i \in DOMAIN keys |->
                       Entry(keys[i], normalizeObject(Get(obj, keys[i]), maxDecimals))])
      [] OTHER -> obj

Punct(p) == [p |-> p]

RECURSIVE JSONStringify(_)
RECURSIVE JSONJoin(_, _)

\* the members of an array (entries = FALSE) or of an object, separated by commas
JSONJoin(members, entries) ==
    IF members = <<>> THEN <<>>
    ELSE (IF entries
          THEN <<[str |-> Head(members).key], Punct(":")>> \o JSONStringify(Head(members).value)
          ELSE JSONStringify(Head(members)))
         \o (IF Len(members) > 1 THEN <<Punct(",")>> ELSE <<>>)
         \o JSONJoin(Tail(members), entries)

JSONStringify(value) ==
    CASE value.t = "number" ->
            IF isFinite(value.num) THEN <<[num |-> value.num]>> ELSE <<Punct("null")>>
      [] value.t = "string" -> <<[str |-> value.str]>>
      [] value.t = "array" ->
            <<Punct("[")>> \o JSONJoin(value.items, FALSE) \o <<Punct("]")>>
      [] value.t = "object" ->
            <<Punct("{")>> \o JSONJoin(value.entries, TRUE) \o <<Punct("}")>>
      [] OTHER -> <<Punct("null")>>

stableStringify(obj, maxDecimals) == JSONStringify(normalizeObject(obj, maxDecimals))

stableEqual(a, b) ==
    stableStringify(a, DefaultMaxDecimals) = stableStringify(b, DefaultMaxDecimals)

(* the calls of stableStringify and stableEqual: two values are drawn at the *)
(* start                                                                      *)

KeySeqs == {<<>>, <<"a">>, <<"b">>, <<"a", "b">>, <<"b", "a">>}

Leaves == {Num(Fin(3, 2)), Num(Fin(12345678, 10000000)), Str("x")}

\* the objects with the keys of a key sequence, in that order
ObjectsOver(keys, values) ==
    { Obj([i \in DOMAIN keys |-> Entry(keys[i], vs[i])]) :
        vs \in [DOMAIN keys -> values] }

FlatObjects ==
    UNION { ObjectsOver(keys, {Num(Fin(12345678, 10000000)), Str("x")}) :
              keys \in KeySeqs }

InnerObjects ==
    UNION { ObjectsOver(keys, {Num(Fin(3, 2)), Str("x")}) :
              keys \in {<<"a", "c">>, <<"c", "a">>} }

Values ==
    Leaves \cup FlatObjects
    \cup { Arr(<<o, Null>>) : o \in InnerObjects }
    \cup UNION { { Obj(<<Entry("a", o), Entry("b", Num(Fin(1, 4)))>>),
                   Obj(<<Entry("b", Num(Fin(1, 4))), Entry("a", o)>>) } :
                 o \in InnerObjects }

NoHash == [op |-> "none", a |-> Null, b |-> Null, value |-> <<>>, equal |-> FALSE]

InitHash ==
    /\ defaultFactorPack = <<>>
    /\ regionMappings = <<>>
    /\ last = NoCall
    /\ now = 0
    /\ \E a \in Values, b \in Values : calc = [NoHash EXCEPT !.a = a, !.b = b]

StableStringifyCall ==
    /\ calc' = [calc EXCEPT !.op = "stableStringify",
                            !.value = stableStringify(calc.a, DefaultMaxDecimals)]
    /\ UNCHANGED <<defaultFactorPack, regionMappings, last, now>>

StableEqualCall ==
    /\ calc' = [calc EXCEPT !.op = "stableEqual",
                            !.equal = stableEqual(calc.a, calc.b)]
    /\ UNCHANGED <<defaultFactorPack, regionMappings, last, now>>

NextHash ==
    \/ StableStringifyCall
    \/ StableEqualCall

SpecHash == InitHash /\ [][NextHash]_vars

----------------------------------------------------------------------------
(* What the claims speak of *)

\* a resolveFactor call over the registry's table was made last
Resolved == last.op = "resolveFactor" /\ ~last.overrides.given

\* the region that call looked up
LastRegion == normalizeRegionCode(last.region)

\* the positions in the table of the factors of a region and scope
FactorsOf(region, scope) ==
    { i \in 1..Len(defaultFactorPack) :
        /\ defaultFactorPack[i].region = region
        /\ defaultFactorPack[i].scope = scope }

HasFactor(region, scope) == FactorsOf(region, scope) # {}

\* the (region, scope) candidates of the call: the region's own, else WORLD's
CandidatesOfLast ==
    IF HasFactor(LastRegion, last.scope)
    THEN FactorsOf(LastRegion, last.scope) ELSE FactorsOf("WORLD", last.scope)

\* the factor's effective range contains the day: from effectiveFrom to
\* effectiveTo, both included, and without end when there is no effectiveTo
Covers(factor, day) ==
    /\ factor.effectiveFrom <= day
    /\ (factor.effectiveTo = NoDate \/ day <= factor.effectiveTo)

Least(S) == CHOOSE i \in S : \A j \in S : i <= j

InSeq(x, seq) == \E i \in 1..Len(seq) : seq[i] = x

\* C2: WORLD fallback.  When the table has no factor of the looked-up region R
\* and the scope, R is not WORLD and the table has a WORLD factor of the scope,
\* resolveFactor without a date succeeds and returns a WORLD factor of the scope.
C2_WorldFallback ==
    ( /\ Resolved
      /\ last.date = NoDate
      /\ LastRegion # "WORLD"
      /\ ~HasFactor(LastRegion, last.scope)
      /\ HasFactor("WORLD", last.scope) )
    => ( /\ last.kind = "ok"
         /\ last.factor.region = "WORLD"
         /\ last.factor.scope = last.scope )

C2_Witness ==
    /\ Resolved
    /\ last.date = NoDate
    /\ LastRegion = "IN"
    /\ ~HasFactor("IN", last.scope)
    /\ HasFactor("WORLD", last.scope)
    /\ \E i \in 1..Len(defaultFactorPack) : defaultFactorPack[i].scope # last.scope
    /\ last.kind = "ok"
    /\ last.factor.region = "WORLD"

\* C3: date exclusion never triggers the region fallback.  When the table has
\* factors of (R, scope) and none of them covers the date, resolveFactor fails
\* with NoFactorForDateError, also when a WORLD factor of the scope covers it.
C3_NoFallbackOnDate ==
    ( /\ Resolved
      /\ last.date # NoDate
      /\ HasFactor(LastRegion, last.scope)
      /\ \A i \in FactorsOf(LastRegion, last.scope) :
             ~Covers(defaultFactorPack[i], last.date) )
    => last.kind = "NoFactorForDateError"

C3_Witness ==
    /\ Resolved
    /\ last.date # NoDate
    /\ LastRegion # "WORLD"
    /\ HasFactor(LastRegion, last.scope)
    /\ \A i \in FactorsOf(LastRegion, last.scope) :
           ~Covers(defaultFactorPack[i], last.date)
    /\ \E i \in FactorsOf("WORLD", last.scope) : Covers(defaultFactorPack[i], last.date)
    /\ last.kind = "NoFactorForDateError"

\* C4: resolveFactor fails with UnknownRegionError exactly when the table is not
\* empty and has no factor of (R, scope) and none of (WORLD, scope); the same
\* call without the date fails with it in exactly the same cases.
C4_UnknownRegionExactly ==
    Resolved =>
        /\ (last.kind = "UnknownRegionError")
             <=> ( /\ Len(defaultFactorPack) > 0
                   /\ ~HasFactor(LastRegion, last.scope)
                   /\ ~HasFactor("WORLD", last.scope) )
        /\ (last.kind = "UnknownRegionError")
             <=> (resolveFactor([region |-> last.region, scope |-> last.scope,
                                 date |-> NoDate, overrides |-> last.overrides]).kind
                    = "UnknownRegionError")

C4_Witness ==
    /\ Resolved
    /\ last.date # NoDate
    /\ Len(defaultFactorPack) > 0
    /\ HasFactor("WORLD", "baseline")
    /\ last.kind = "UnknownRegionError"

\* C5: with a date, when resolveFactor succeeds, the factor returned is one of
\* the (region, scope) candidates whose effective range contains the date, no
\* other such candidate has a later effectiveFrom, and it is the first in table
\* order of those with that effectiveFrom.
C5_LatestCoveringCandidate ==
    (Resolved /\ last.date # NoDate /\ last.kind = "ok") =>
        LET covering == { i \in CandidatesOfLast :
                            Covers(defaultFactorPack[i], last.date) }
        IN  \E i \in covering :
                /\ last.factor = defaultFactorPack[i]
                /\ \A j \in covering :
                       /\ defaultFactorPack[j].effectiveFrom
                            <= defaultFactorPack[i].effectiveFrom
                       /\ defaultFactorPack[j].effectiveFrom
                            = defaultFactorPack[i].effectiveFrom => i <= j

Aliases(m) == {m.code, m.iso2, m.iso3, m.unM49} \ {Undefined}

\* what resolveFactor gives for the arguments of the call made last, with
\* another region
WithRegion(region) ==
    resolveFactor([region |-> region, scope |-> last.scope, date |-> last.date,
                   overrides |-> last.overrides])

\* the call made last has looked the region up as R: a factor returned is R's
\* own when the table has one of the scope, and WORLD's otherwise
LookedUpAs(R) ==
    /\ last.kind = "ok" =>
          last.factor.region = IF HasFactor(R, last.scope) THEN R ELSE "WORLD"
    /\ HasFactor(R, last.scope) => last.kind \in {"ok", "NoFactorForDateError"}

\* C7 as stated: for every loaded mapping and each of its aliases, in any letter
\* case, resolveFactor gives what it gives for the mapping's code; a region
\* string that matches no alias is looked up as its upper-cased form.
C7_AliasesAnyCase ==
    Resolved =>
        /\ \A i \in 1..Len(regionMappings) :
             \A a \in Aliases(regionMappings[i]) :
                toUpperCase(last.region) = toUpperCase(a) =>
                    /\ WithRegion(regionMappings[i].code).kind = last.kind
                    /\ WithRegion(regionMappings[i].code).factor = last.factor
        /\ (\A i \in 1..Len(regionMappings) :
              \A a \in Aliases(regionMappings[i]) :
                 toUpperCase(last.region) # toUpperCase(a))
             => LookedUpAs(toUpperCase(last.region))

\* the mapping at position i is the first of the list to carry the code
FirstCarrier(i, code) ==
    /\ code # ""
    /\ code = toUpperCase(code)
    /\ FindRegion(code) = i

\* C7 as amended: the same, for the codes and aliases stored in upper case in
\* the first mapping of the list that carries them; a region string whose
\* upper-cased form no mapping carries is looked up as that form.
C7_UpperCaseAliases ==
    Resolved =>
        /\ \A i \in 1..Len(regionMappings) :
             \A a \in Aliases(regionMappings[i]) :
                ( /\ toUpperCase(last.region) = a
                  /\ FirstCarrier(i, a)
                  /\ FirstCarrier(i, regionMappings[i].code) )
                =>  /\ WithRegion(regionMappings[i].code).kind = last.kind
                    /\ WithRegion(regionMappings[i].code).factor = last.factor
        /\ FindRegion(toUpperCase(last.region)) = 0
             => LookedUpAs(toUpperCase(last.region))

\* an alias written in lower case resolved to the factor of the mapping's code
C7_Witness ==
    /\ Resolved
    /\ last.region = "in"
    /\ \E i \in 1..Len(regionMappings) :
          /\ regionMappings[i].code = "IN"
          /\ FirstCarrier(i, "IN")
    /\ last.kind = "ok"
    /\ last.factor.region = "IN"

\* C8: whenever the table is empty, resolveFactor fails with the 'No factors
\* available' error, whatever the region, scope and date.
C8_EmptyTable ==
    (Resolved /\ Len(defaultFactorPack) = 0) => last.kind = "NoFactorsAvailable"

\* an empty pack was loaded, with region mappings, and a date was given
C8_Witness ==
    /\ Resolved
    /\ Len(defaultFactorPack) = 0
    /\ regionMappings # <<>>
    /\ last.date # NoDate
    /\ last.kind = "NoFactorsAvailable"

\* C9: replace, not merge.  After a successful load listFactors() is the pack
\* loaded, in its order, and every factor that resolveFactor, getLatestFactor or
\* getFactorById returns is one of that pack.
C9_ReplaceNotMerge ==
    (last.op = "load" /\ last.kind = "ok") =>
        /\ listFactors(NoFilter) = last.pack
        /\ \A region \in RegionInputs, scope \in ScopeInputs :
             /\ \A date \in DateInputs :
                  LET r == resolveFactor([region |-> region, scope |-> scope,
                                          date |-> date, overrides |-> NoOverrides])
                  IN  r.kind = "ok" => InSeq(r.factor, last.pack)
             /\ getLatestFactor(region, scope) # NullFactor
                  => InSeq(getLatestFactor(region, scope), last.pack)
        /\ \A i \in 1..Len(last.before) :
             getFactorById(last.before[i].id) # NullFactor
                  => InSeq(getFactorById(last.before[i].id), last.pack)

\* a load replaced a table that held a factor the new pack does not hold
C9_Witness ==
    /\ last.op = "load"
    /\ last.kind = "ok"
    /\ last.pack # <<>>
    /\ \E i \in 1..Len(last.before) : ~InSeq(last.before[i], last.pack)

\* C1: determinism.  Two calls of avoidedEmissions with the same arguments
\* return results equal in every field, meta included, whenever each is made.
C1_Deterministic ==
    [][ ( /\ calc.op = "avoidedEmissions"
          /\ calc'.op = "avoidedEmissions"
          /\ calc'.input = calc.input )
        => calc'.result = calc.result ]_vars

\* the error the checks of toCO2eKg give, taken in the order stated
FirstFailing(energy, unit, factor) ==
    IF ~isFinite(energy) \/ ~isFinite(factor)
    THEN "Energy and factor must be finite numbers"
    ELSE IF Less(energy, Zero) THEN "Energy cannot be negative"
    ELSE IF Less(factor, Zero) THEN "Emission factor cannot be negative"
    ELSE IF unit \notin {"kWh", "MWh", "GWh"} THEN "InvalidUnitError"
    ELSE "ok"

\* C10: toCO2eKg checks in a fixed order, and the first failing check decides
\* the error: not finite, energy < 0, factor < 0, unit not recognised; no value
\* is returned when a check fails.
C10_CheckOrder ==
    calc.op = "toCO2eKg" =>
        /\ calc.kind = FirstFailing(calc.input.energy, calc.input.inputUnit,
                                    calc.input.factorKgPerKWh)
        /\ calc.kind # "ok" => calc.value = NaN

\* two checks fail at once: the energy is negative and not finite, the unit is
\* not recognised, and the first check decides
C10_Witness ==
    /\ calc.op = "toCO2eKg"
    /\ calc.input.energy = NegInf
    /\ calc.input.inputUnit = "Wh"
    /\ calc.kind = "Energy and factor must be finite numbers"

\* scale(u)
Scale(u) == CASE u = "kWh" -> 1 [] u = "MWh" -> 1000 [] u = "GWh" -> 1000000

\* the arguments C11 is about: finite, not negative, a unit that is recognised
ValidConversion(input) ==
    /\ isFinite(input.energy) /\ ~Negative(input.energy)
    /\ isFinite(input.factorKgPerKWh) /\ ~Negative(input.factorKgPerKWh)
    /\ input.inputUnit \in {"kWh", "MWh", "GWh"}

\* energy1 in unit1 and energy2 in unit2 are the same physical energy (the
\* scales are below 2^53, so that exponents further apart give different
\* energies, or two zeros)
SameEnergy(energy1, unit1, energy2, unit2) ==
    /\ isFinite(energy1) /\ isFinite(energy2)
    /\ energy1.s = energy2.s
    /\ (energy1.m = <<>>) = (energy2.m = <<>>)
    /\ Abs(energy1.e - energy2.e) <= 2 * MantissaBits
    /\ BMulSmall(BShl(energy1.m, energy1.e - Min(energy1.e, energy2.e)), Scale(unit1))
         = BMulSmall(BShl(energy2.m, energy2.e - Min(energy1.e, energy2.e)), Scale(unit2))

\* C11: for finite energy >= 0, factor >= 0 and a unit u of kWh, MWh, GWh,
\* toCO2eKg is energy * scale(u) * factor and toCO2eTonnes is that divided by
\* 1000, unrounded; the same physical energy in another unit gives the same.
C11_ScaleAndUnits ==
    ValidConversion(calc.input) =>
        LET kg == Times(Times(calc.input.energy, Fin(Scale(calc.input.inputUnit), 1)),
                        calc.input.factorKgPerKWh)
        IN  /\ calc.op = "toCO2eKg" => calc.kind = "ok" /\ calc.value = kg
            /\ calc.op = "toCO2eTonnes" =>
                  calc.kind = "ok" /\ calc.value = Over(kg, Fin(1000, 1))
            /\ calc.op = "toCO2eKg" =>
                  \A energy \in EnergyInputs, unit \in {"kWh", "MWh", "GWh"} :
                      SameEnergy(energy, unit, calc.input.energy, calc.input.inputUnit)
                      => toCO2eKg(energy, unit, calc.input.factorKgPerKWh).value
                           = calc.value

\* 1.5 MWh gave what 1500 kWh gives
C11_Witness ==
    /\ calc.op = "toCO2eKg"
    /\ calc.input.energy = Fin(3, 2)
    /\ calc.input.inputUnit = "MWh"
    /\ calc.input.factorKgPerKWh = Fin(708, 1000)
    /\ calc.value = toCO2eKg(Fin(1500, 1), "kWh", Fin(708, 1000)).value
    /\ calc.value = Fin(1062, 1)

\* the number written whole.frac in decimal notation, frac of the given
\* number of digits
Decimal(whole, frac, digits) ==
    Round(0, BAdd(BMul(BNat(whole), BNat(Pow10(digits))), BNat(frac)),
          BNat(Pow10(digits)), 0)

\* |a - b|
Distance(a, b) == [Plus(a, [b EXCEPT !.s = 1 - b.s]) EXCEPT !.s = 0]

\* energy = 12345.678 kWh, factor = 0.708 kg/kWh
GoldenInput ==
    /\ calc.input.energy = Fin(12345678, 1000)
    /\ calc.input.inputUnit = "kWh"
    /\ calc.input.factorKgPerKWh = Fin(708, 1000)

\* the call rounds to 6 decimals, HALF_UP
GoldenRounding ==
    /\ calc.op = "toCO2eTonnesRounded"
    /\ calc.input.rounding.decimals = 6
    /\ calc.input.rounding.mode = "HALF_UP"

Multiple(k, d) == Over(k, Fin(Pow10(d), 1))

\* the multiples of 10^-d around x
MultiplesNear(x, d) ==
    { Multiple(Plus(MathFloor(Times(x, Fin(Pow10(d), 1))), Fin(j, 1)), d) : j \in -2..2 }

AbsOf(x) == [x EXCEPT !.s = 0]

Rounded(mode) == calc.op = "roundStable" /\ calc.mode = mode /\ isFinite(calc.x)

\* C12: for every finite x and decimals d >= 0, roundStable(x, d, HALF_UP) is
\* the multiple of 10^-d nearest to x, and of two multiples equally near the
\* one farther from zero.
C12_HalfUpNearest ==
    Rounded("HALF_UP") =>
        /\ calc.value \in MultiplesNear(calc.x, calc.decimals)
        /\ \A M \in MultiplesNear(calc.x, calc.decimals) :
              /\ ~Less(Distance(M, calc.x), Distance(calc.value, calc.x))
              /\ Distance(M, calc.x) = Distance(calc.value, calc.x)
                    => ~Less(AbsOf(calc.value), AbsOf(M))

\* the greatest of the multiples around x that are <= x, the least that are >= x
IsFloorOf(r, x, d) ==
    /\ r \in MultiplesNear(x, d)
    /\ ~Less(x, r)
    /\ \A M \in MultiplesNear(x, d) : ~Less(x, M) => ~Less(r, M)

IsCeilingOf(r, x, d) ==
    /\ r \in MultiplesNear(x, d)
    /\ ~Less(r, x)
    /\ \A M \in MultiplesNear(x, d) : ~Less(M, x) => ~Less(M, r)

\* C13: for every finite x and decimals d >= 0, roundStable(x, d, DOWN) is the
\* greatest multiple of 10^-d that is <= x, and roundStable(x, d, TRUNC) the
\* multiple closest to x of absolute value <= |x|; the two agree for x >= 0 and
\* differ for a negative x that is not a multiple of 10^-d.
C13_DownAndTrunc ==
    /\ Rounded("DOWN") => IsFloorOf(calc.value, calc.x, calc.decimals)
    /\ Rounded("TRUNC") =>
          IF Negative(calc.x) THEN IsCeilingOf(calc.value, calc.x, calc.decimals)
          ELSE IsFloorOf(calc.value, calc.x, calc.decimals)
    /\ Rounded("DOWN") =>
          IF Negative(calc.x) /\ calc.x \notin MultiplesNear(calc.x, calc.decimals)
          THEN calc.value # roundStable(calc.x, calc.decimals, "TRUNC")
          ELSE ~Negative(calc.x) =>
                  calc.value = roundStable(calc.x, calc.decimals, "TRUNC")

\* C14: roundStable is idempotent: rounding the result again, with the same
\* decimals and mode, gives the result.
C14_Idempotent ==
    (calc.op = "roundStableAgain" /\ isFinite(calc.x)) => calc.again = calc.value

\* two values that differ at most in the insertion order of object keys
RECURSIVE SameGraph(_, _)
SameGraph(a, b) ==
    IF a.t # b.t THEN FALSE
    ELSE CASE a.t = "array" ->
                 /\ Len(a.items) = Len(b.items)
                 /\ \A i \in DOMAIN a.items : SameGraph(a.items[i], b.items[i])
           [] a.t = "object" ->
                 /\ {e.key : e \in {a.entries[i] : i \in DOMAIN a.entries}}
                       = {e.key : e \in {b.entries[i] : i \in DOMAIN b.entries}}
                 /\ \A i \in DOMAIN a.entries :
                       SameGraph(a.entries[i].value, Get(b, a.entries[i].key))
           [] OTHER -> a = b

\* C15: for two values that differ only in the insertion order of object keys,
\* at any nesting level and inside arrays, stableStringify returns the same
\* string and stableEqual returns true.
C15_KeyOrderIndependent ==
    SameGraph(calc.a, calc.b) =>
        /\ calc.op = "stableStringify"
              => calc.value = stableStringify(calc.b, DefaultMaxDecimals)
        /\ calc.op = "stableEqual" => calc.equal

C15_Witness ==
    /\ calc.op = "stableEqual"
    /\ calc.equal
    /\ calc.a.t = "object"
    /\ calc.a # calc.b
    /\ SameGraph(calc.a, calc.b)
    /\ \E i \in DOMAIN calc.a.entries :
          /\ calc.a.entries[i].value.t = "object"
          /\ calc.a.entries[i].value # Get(calc.b, calc.a.entries[i].key)
          /\ calc.a.entries[i].key # calc.b.entries[i].key

Listed == last.op = "listFactors" /\ last.filter.given

\* the predicates of a filter, each alone; a predicate that is not supplied holds
RegionPredicate(factor, filter) ==
    filter.region # "" => factor.region = normalizeRegionCode(filter.region)

ScopePredicate(factor, filter) ==
    filter.scope # "" => factor.scope = filter.scope

\* [effectiveFrom, effectiveTo or open-ended] overlaps [from, to]
WindowPredicate(factor, filter) ==
    /\ filter.to # NoDate => factor.effectiveFrom <= filter.to
    /\ filter.from # NoDate =>
          (factor.effectiveTo = NoDate \/ filter.from <= factor.effectiveTo)

OnlyRegion(filter) == [filter EXCEPT !.scope = "", !.from = NoDate, !.to = NoDate]

OnlyScope(filter) == [filter EXCEPT !.region = "", !.from = NoDate, !.to = NoDate]

OnlyWindow(filter) == [filter EXCEPT !.region = "", !.scope = ""]

\* C16: listFactors(filter) returns, in table order, exactly the factors of the
\* table that satisfy every supplied predicate: region equal to the normalized
\* filter region (no WORLD fallback), scope equal to the filter scope, and a
\* range [effectiveFrom, effectiveTo or open-ended] that overlaps [from, to];
\* the result is the intersection of the results of each predicate alone.
C16_ListFactors ==
    Listed =>
        /\ last.list = SelectSeq(defaultFactorPack, LAMBDA factor :
                           /\ RegionPredicate(factor, last.filter)
                           /\ ScopePredicate(factor, last.filter)
                           /\ WindowPredicate(factor, last.filter))
        /\ last.list = SelectSeq(defaultFactorPack, LAMBDA factor :
                           /\ InSeq(factor, listFactors(OnlyRegion(last.filter)))
                           /\ InSeq(factor, listFactors(OnlyScope(last.filter)))
                           /\ InSeq(factor, listFactors(OnlyWindow(last.filter))))

Latest == last.op = "getLatestFactor"

\* C17: getLatestFactor(region, scope) returns null exactly when the table has
\* no factor of the normalized region and the scope (WORLD is no fallback), and
\* otherwise a factor of that region and scope whose effectiveFrom is >= that of
\* every other factor of that region and scope.
C17_LatestFactor ==
    Latest =>
        /\ last.kind = "null" <=> ~HasFactor(normalizeRegionCode(last.region), last.scope)
        /\ last.kind = "ok" =>
              /\ InSeq(last.factor, defaultFactorPack)
              /\ last.factor.region = normalizeRegionCode(last.region)
              /\ last.factor.scope = last.scope
              /\ \A i \in 1..Len(defaultFactorPack) :
                    ( /\ defaultFactorPack[i].region = last.factor.region
                      /\ defaultFactorPack[i].scope = last.scope )
                    => defaultFactorPack[i].effectiveFrom <= last.factor.effectiveFrom

C17_Witness ==
    /\ Latest
    /\ last.kind = "ok"
    /\ last.factor.region = "IN"
    /\ defaultFactorPack[1] = last.factor
    /\ Len(defaultFactorPack) = 2
    /\ defaultFactorPack[2].region = "IN"
    /\ defaultFactorPack[2].effectiveFrom < last.factor.effectiveFrom

Totalled == calc.op = "totalAvoidedEmissions" /\ calc.kind = "ok"

\* the rounding of the total
TotalDecimals ==
    IF calc.rounding.given /\ calc.rounding.decimals >= 0
    THEN calc.rounding.decimals ELSE DefaultDecimals

TotalMode ==
    IF calc.rounding.given /\ calc.rounding.mode # Undefined
    THEN calc.rounding.mode ELSE "HALF_UP"

\* per item: the energy in kWh, and the kilograms and tonnes before any rounding
ItemEnergy(input) == normalizeToKWh(input.energy, input.inputUnit).value

ItemKg(input) == Times(ItemEnergy(input), input.factorKgPerKWh)

ItemTonnes(input) == Over(ItemKg(input), Fin(1000, 1))

\* C18: totalAvoidedEmissions rounds once, on the aggregate: its tCO2e and
\* kgCO2e are roundStable of the sums of the unrounded per-item tonnes and
\* kilograms, whatever the items' own rounding settings.
C18_RoundsOnce ==
    Totalled =>
        /\ calc.result.kgCO2e
              = roundStable(reduceSum(Zero, [i \in DOMAIN calc.inputs |->
                                               ItemKg(calc.inputs[i])]),
                            TotalDecimals, TotalMode)
        /\ calc.result.tCO2e
              = roundStable(reduceSum(Zero, [i \in DOMAIN calc.inputs |->
                                               ItemTonnes(calc.inputs[i])]),
                            TotalDecimals, TotalMode)

TotalEnergy == reduceSum(Zero, [i \in DOMAIN calc.inputs |-> ItemEnergy(calc.inputs[i])])

\* C19: totalAvoidedEmissions reports as factorKgPerKWh the energy-weighted
\* average of the inputs' factors, sum(factor * energyKWh) / sum(energyKWh),
\* rounded with the rounding of the total, and 0 when the total energy is 0,
\* the empty list included; its energyKWh is the sum of the items' energies in kWh.
C19_WeightedFactor ==
    Totalled =>
        /\ calc.result.energyKWh = TotalEnergy
        /\ calc.result.factorKgPerKWh =
              IF TotalEnergy = Zero THEN Zero
              ELSE roundStable(
                     Over(reduceSum(Zero, [i \in DOMAIN calc.inputs |->
                                             Times(calc.inputs[i].factorKgPerKWh,
                                                   ItemEnergy(calc.inputs[i]))]),
                          TotalEnergy),
                     TotalDecimals, TotalMode)

C19_Witness ==
    /\ Totalled
    /\ Len(calc.inputs) = 2
    /\ calc.inputs[1].factorKgPerKWh # calc.inputs[2].factorKgPerKWh
    /\ ItemEnergy(calc.inputs[1]) # ItemEnergy(calc.inputs[2])
    /\ Less(Zero, ItemEnergy(calc.inputs[2]))
    /\ Less(Zero, ItemEnergy(calc.inputs[1]))
    /\ calc.result.factorKgPerKWh # calc.inputs[1].factorKgPerKWh
    /\ calc.result.factorKgPerKWh # calc.inputs[2].factorKgPerKWh

\* the tables as the import of the package entry leaves them
AfterImport == defaultFactorPack = defaultFactors /\ regionMappings = defaultRegions

\* C21: with the default pack loaded and no later reload, resolveFactor for
\* region IN and scope baseline returns the factor of value 0.708, for WORLD
\* the factor of value 0.82, and for UNKNOWN the WORLD factor of value 0.82.
C21_DefaultPack ==
    (Resolved /\ AfterImport /\ last.scope = "baseline" /\ last.date = NoDate) =>
        /\ last.region = "IN" =>
              /\ last.kind = "ok"
              /\ last.factor.region = "IN"
              /\ last.factor.valueKgPerKWh = 708
        /\ last.region \in {"WORLD", "UNKNOWN"} =>
              /\ last.kind = "ok"
              /\ last.factor.region = "WORLD"
              /\ last.factor.valueKgPerKWh = 820

C21_Witness ==
    /\ Resolved
    /\ AfterImport
    /\ last.scope = "baseline"
    /\ last.date = NoDate
    /\ last.region = "UNKNOWN"
    /\ last.kind = "ok"
    /\ last.factor.id = "WORLD-DEFAULT-2024"

\* C22: a load whose pack fails validation leaves the registry as it was: the
\* factor table and the region mappings both equal their values before the call.
C22_FailedLoadKeepsRegistry ==
    [][ (last'.op = "load" /\ last'.kind = "ZodError")
           => UNCHANGED <<defaultFactorPack, regionMappings>> ]_vars

\* a failed load found a table and mappings, and they are still there
C22_Witness ==
    /\ last.op = "load"
    /\ last.kind = "ZodError"
    /\ last.pack # <<>>
    /\ last.before # <<>>
    /\ defaultFactorPack = last.before
    /\ regionMappings # <<>>

\* a window that starts on a day and has no end
WindowFrom(day) == [given |-> TRUE, region |-> "", scope |-> "", from |-> day, to |-> NoDate]

\* C23: a factor with no effectiveTo is open-ended: for every date on or after
\* its effectiveFrom it is a date-matching candidate of resolveFactor, so that
\* the call returns it or a candidate of a later effectiveFrom, and it overlaps
\* every listFactors window that starts on or after its effectiveFrom.
C23_OpenEnded ==
    /\ (Resolved /\ last.date # NoDate) =>
          \A i \in CandidatesOfLast :
             ( /\ defaultFactorPack[i].effectiveTo = NoDate
               /\ defaultFactorPack[i].effectiveFrom <= last.date )
             => /\ last.kind = "ok"
                /\ defaultFactorPack[i].effectiveFrom <= last.factor.effectiveFrom
    /\ \A i \in 1..Len(defaultFactorPack), day \in 1..MaxDay :
          ( /\ defaultFactorPack[i].effectiveTo = NoDate
            /\ defaultFactorPack[i].effectiveFrom <= day )
          => InSeq(defaultFactorPack[i], listFactors(WindowFrom(day)))

\* the error an entry fails with ("ok" for none), under the conversion a batch
\* or aggregate operation applies to it
EntryKind(op, input) ==
    IF op \in {"batchToCO2eTonnes", "totalCO2eTonnes"}
    THEN toCO2eKg(input.energy, input.inputUnit, input.factorKgPerKWh).kind
    ELSE avoidedEmissions(input).kind

FailingEntries == { i \in DOMAIN calc.inputs : EntryKind(calc.op, calc.inputs[i]) # "ok" }

\* C24: no partial results.  When an entry passed to batchToCO2eTonnes,
\* totalCO2eTonnes, batchAvoidedEmissions or totalAvoidedEmissions fails
\* validation, the call fails with the error of the first such entry and returns
\* nothing; otherwise totalCO2eTonnes is roundStable, applied once, of the sum
\* of the unrounded toCO2eTonnes values of the entries.
C24_NoPartialResults ==
    calc.op # "none" =>
        IF FailingEntries # {}
        THEN /\ calc.kind = EntryKind(calc.op, calc.inputs[Least(FailingEntries)])
             /\ calc.results = <<>>
             /\ calc.result = NoTotal
             /\ calc.value = NaN
        ELSE /\ calc.kind = "ok"
             /\ calc.op \in {"batchToCO2eTonnes", "batchAvoidedEmissions"}
                   => Len(calc.results) = Len(calc.inputs)
             /\ calc.op = "totalCO2eTonnes" =>
                   calc.value =
                      roundStable(
                        reduceSum(Zero, [i \in DOMAIN calc.inputs |->
                                           ItemTonnes(calc.inputs[i])]),
                        TotalDecimals, TotalMode)

\* a total over a list whose second entry is the one that fails
C24_Witness ==
    /\ calc.op = "totalCO2eTonnes"
    /\ Len(calc.inputs) = 2
    /\ FailingEntries = {2}
    /\ calc.kind = "InvalidUnitError"
    /\ calc.value = NaN


\* the multiplier that a member of the adjustments stands for: its value, and 1
\* when it is left out
MultiplierOf(member) == IF member.given THEN member.value ELSE Fin(1, 1)

\* avoidedEmissions of the input whose energy is energy x e x g
ExpectedAdjusted(input, adjustments) ==
    avoidedEmissions(
        [input EXCEPT !.energy = Times(Times(input.energy,
                                             MultiplierOf(adjustments.efficiencyFactor)),
                                       MultiplierOf(adjustments.degradationFactor))])

NonNegativeMultiplier(member) ==
    member.given => (isFinite(member.value) /\ ~Negative(member.value))

\* C25: avoidedEmissionsWithMethodology applies every supplied multiplier: for
\* supplied efficiency and degradation factors >= 0 (an omitted one counts as
\* 1) the result's energyKWh is energy x e x g normalized to kWh and its kgCO2e
\* is that energy times the factor, rounded with the rounding of the input
C25_MultipliersApplied ==
    (/\ calc.op = "avoidedEmissionsWithMethodology"
     /\ NonNegativeMultiplier(calc.adjustments.efficiencyFactor)
     /\ NonNegativeMultiplier(calc.adjustments.degradationFactor)
     /\ ExpectedAdjusted(calc.input, calc.adjustments).kind = "ok")
    => /\ calc.kind = "ok"
       /\ calc.result.energyKWh =
              ExpectedAdjusted(calc.input, calc.adjustments).result.energyKWh
       /\ calc.result.kgCO2e =
              ExpectedAdjusted(calc.input, calc.adjustments).result.kgCO2e

\* the same with every supplied multiplier > 0
C25_PositiveMultipliers ==
    (/\ calc.op = "avoidedEmissionsWithMethodology"
     /\ Truthy(calc.adjustments.efficiencyFactor)
            \/ ~calc.adjustments.efficiencyFactor.given
     /\ Truthy(calc.adjustments.degradationFactor)
            \/ ~calc.adjustments.degradationFactor.given)
    => C25_MultipliersApplied

\* C27: toCO2eWithUncertainty returns the base value of toCO2eTonnesRounded and
\* the two bounds roundStable(base -/+ base x pct / 100), all with the same
\* decimals and mode, so that for pct >= 0 lower <= base <= upper
C27_BoundsOrdered ==
    (/\ calc.op = "toCO2eWithUncertainty"
     /\ calc.kind = "ok"
     /\ ~Negative(calc.adjustments.uncertaintyPct.value))
    => /\ ~Less(calc.bounds.baseTCO2e, calc.bounds.lowerTCO2e)
       /\ ~Less(calc.bounds.upperTCO2e, calc.bounds.baseTCO2e)

C27_Formulas ==
    (calc.op = "toCO2eWithUncertainty" /\ calc.kind = "ok")
    => LET decimals == IF calc.input.rounding.decimals < 0 THEN 6
                       ELSE calc.input.rounding.decimals
           base == toCO2eTonnesRounded(calc.input.energy, calc.input.inputUnit,
                                       calc.input.factorKgPerKWh, decimals, "HALF_UP").value
           part == Over(Times(base, calc.adjustments.uncertaintyPct.value), Fin(100, 1))
       IN  /\ calc.bounds.baseTCO2e = base
           /\ calc.bounds.lowerTCO2e = roundStable(Minus(base, part), decimals, "HALF_UP")
           /\ calc.bounds.upperTCO2e = roundStable(Plus(base, part), decimals, "HALF_UP")


\* the numbers that are not finite
NonFiniteInputs == {NaN, PosInf, NegInf}

\* C26: roundStable returns NaN and the infinities unchanged for every decimals
\* and mode; toCO2eKg and avoidedEmissions raise an error for an energy or a
\* factor that is not finite; so no conversion returns a value that is not
\* finite
C26_NoNonFiniteResult ==
    /\ \A x \in NonFiniteInputs, decimals \in 0..MaxDecimals,
          mode \in {"HALF_UP", "DOWN", "TRUNC", Undefined} :
          roundStable(x, decimals, mode) = x
    /\ (/\ calc.op \in {"toCO2eKg", "avoidedEmissions"}
        /\ ~isFinite(calc.input.energy) \/ ~isFinite(calc.input.factorKgPerKWh))
       => calc.kind = "Energy and factor must be finite numbers"
    /\ (/\ calc.op \in {"toCO2eKg", "toCO2eTonnes", "toCO2eTonnesRounded"}
        /\ calc.kind = "ok")
       => isFinite(calc.value)
    /\ (calc.op = "avoidedEmissions" /\ calc.kind = "ok")
       => /\ isFinite(calc.result.energyKWh)
          /\ isFinite(calc.result.kgCO2e)
          /\ isFinite(calc.result.tCO2e)

\* the same for the inputs whose product stays below Number.MAX_VALUE
C26_WithoutOverflow ==
    (calc.op # "none" /\ calc.input.energy # MaxValue) => C26_NoNonFiniteResult


ReadOps ==
    {"resolveFactor", "listFactors", "getLatestFactor", "getFactorsByRegionAndScope",
     "getAvailableRegions", "getAvailableScopes", "isRegionSupported", "getRegionInfo",
     "getFactorById"}

\* C28: a read never changes the registry: after resolveFactor (with or without
\* a date or overrides), listFactors, getLatestFactor, getFactorsByRegionAndScope,
\* getAvailableRegions, getAvailableScopes, isRegionSupported, getRegionInfo or
\* getFactorById, returned or failed, the factor table and the region mappings
\* are what they were, in the same order, and an overrides array passed keeps
\* its contents and order
C28_ReadsChangeNothing ==
    [][ last'.op \in ReadOps
        => /\ defaultFactorPack' = defaultFactorPack
           /\ regionMappings' = regionMappings
           /\ last'.overrides.given => last'.after = last'.overrides.factors ]_vars

\* resolveFactor has sorted candidates of a table that is not in the order of
\* the sort
C28_Witness ==
    /\ last.op = "resolveFactor"
    /\ ~last.overrides.given
    /\ last.date # NoDate
    /\ last.kind = "ok"
    /\ SortByEffectiveFromDesc(defaultFactorPack) # defaultFactorPack

AliasInputs == {"IN", "in", "IND", "ind", "356", "US", "USA", "840", "WORLD", "XX"}

\* no code has a mapping, and a code is normalized to its upper-cased literal
LiteralLookupOnly ==
    \A code \in AliasInputs :
        /\ ~getRegionInfo(code).found
        /\ normalizeRegionCode(code) = toUpperCase(code)

\* C29: loadFactorPack without a regions argument sets the region mappings to
\* the empty list: after it an alias is looked up only as its upper-cased
\* literal and getRegionInfo returns null for every code
C29_LoadWithoutRegions ==
    [][ (/\ last'.op = "load"
         /\ last'.kind = "ok"
         /\ loadFactorPack(last'.pack, [given |-> FALSE, list |-> <<>>]))
        => (regionMappings = <<>> /\ LiteralLookupOnly)' ]_vars

\* after a load without regions the alias ind, upper-cased, is not a region of
\* the table, which holds factors of IN: the WORLD factor is returned
C29_Witness ==
    /\ regionMappings = <<>>
    /\ \E i \in 1..Len(defaultFactorPack) : defaultFactorPack[i].region = "IN"
    /\ last.op = "resolveFactor"
    /\ ~last.overrides.given
    /\ last.region = "ind"
    /\ last.kind = "ok"
    /\ last.factor.region = "WORLD"

\* the elements of an array
Elements(array) == { array[i] : i \in 1..Len(array) }

\* what the region and scope filter, the WORLD fallback and the date rules give
\* over the factors of pack
ResolvedOver(pack, region, scope, date) ==
    LET candidates == Candidates(pack, normalizeRegionCode(region), scope)
        dated == SelectSeq(candidates, LAMBDA factor : DateInRange(factor, date))
    IN  IF Len(pack) = 0 THEN Thrown("NoFactorsAvailable")
        ELSE IF Len(candidates) = 0 THEN Thrown("UnknownRegionError")
        ELSE IF date = NoDate THEN Returned(candidates[1])
        ELSE IF Len(dated) = 0 THEN Thrown("NoFactorForDateError")
        ELSE Returned(SortByEffectiveFromDesc(dated)[1])

\* C30: with an overrides list resolveFactor does not consult the table: a
\* factor returned is an element of overrides, the filter, the WORLD fallback
\* and the date rules run over overrides only, an empty list fails with 'No
\* factors available' even when the table is loaded, and the region is
\* normalized with the region mappings of the registry
C30_OverridesOnly ==
    (last.op = "resolveFactor" /\ last.overrides.given)
    => /\ last.kind = "ok" => last.factor \in Elements(last.overrides.factors)
       /\ last.overrides.factors = <<>> => last.kind = "NoFactorsAvailable"
       /\ [kind |-> last.kind, factor |-> last.factor]
              = ResolvedOver(last.overrides.factors, last.region, last.scope, last.date)

\* the table is loaded and holds a WORLD baseline factor, the overrides are
\* empty, and the call fails
C30_Witness ==
    /\ last.op = "resolveFactor"
    /\ last.overrides.given
    /\ last.overrides.factors = <<>>
    /\ \E i \in 1..Len(defaultFactorPack) :
          defaultFactorPack[i].region = "WORLD" /\ defaultFactorPack[i].scope = "baseline"
    /\ last.kind = "NoFactorsAvailable"

====
